---- MODULE Spec2Model ----
(***************************************************************************)
(* Model of the monitoring and notification engine of bot.py: the          *)
(* snapshot-diff change detectors (WhaleTracker, MEXCTracker), the post    *)
(* feed monitor (TwitterMonitor) and the periodic tasks that drive them    *)
(* (auto_update, mexc_auto_update, twitter_update), and the mint monitor   *)
(* (TetherMonitor) with its task tether_update.                            *)
(*                                                                         *)
(* Margins and hold volumes are integers; the floating point test          *)
(* abs(diff / old) > 0.1 is modelled by the exact comparison               *)
(* 10 * |diff| > old, which agrees with it on the values used here.        *)
(* Message texts are abstracted to the kind of change and the sub-key.     *)
(* A Python dict is a function whose DOMAIN is the set of its keys;        *)
(* position dicts are iterated in the order of CoinOrder / KeyOrder, the   *)
(* order in which the upstream lists positions.                            *)
(***************************************************************************)
EXTENDS Integers, Sequences, FiniteSets, TLC

VARIABLES
    \* WhaleTracker (tracker) and the whale task
    whales,                    \* tracker.whales: tracked addresses, in insertion order
    last_positions,            \* tracker.last_positions: address -> snapshot
    subscribed_chats,          \* tracker.subscribed_chats
    last_scheduled_push_time,  \* slot label of the last whale report ("" is <<>>)
    \* MEXCTracker (mexc_tracker) and the MEXC task
    MEXC_KEYS,                 \* MEXC_API_KEY and MEXC_SECRET_KEY are both set
    last_mexc_positions,       \* global last_mexc_positions
    last_mexc_push_time,       \* slot label of the last MEXC report
    trades_history,            \* mexc_tracker.trades_history
    \* TwitterMonitor (twitter_monitor), the post-feed task and the upstream feed
    TWITTER_BEARER_TOKEN,      \* the token is set
    accounts,                  \* twitter_monitor.accounts, in insertion order
    last_tweets,               \* twitter_monitor.last_tweets: username -> tweet id
    feed,                      \* upstream: number of posts of each account (ids 1..feed)
    \* what the last invocation of each task observed and sent
    w_whales, w_prior, w_fetch, w_diffed, w_again, w_sent, w_report, w_post,
    w_call,                    \* the add_whale or remove_whale call of the last step, and
                               \* what it returned
    m_prior, m_trades0, m_fetch, m_ran, m_baseline, m_again, m_sent, m_report,
    t_prior, t_fetch, t_sent,
    t_fetch0,                  \* t_fetch of the invocation before the last one
    t_tweets,                  \* the posts each timeline request of the last invocation returned
    \* (m_baseline: "pending" until the first diff, "now" when the last invocation
    \* made it, "done" afterwards; w_again, m_again: the fetch returned what the
    \* previous, diffed, fetch returned)
    \* which detector the diff specification exercises
    diff_domain,
    \* the process
    TELEGRAM_TOKEN,            \* the chat token is set
    process,                   \* "starting", "running" or "failed"
    \* a credential pool of one upstream capability
    pool_failed,               \* the failed flag of each credential, by position
    currentIndex,              \* the position the next scan starts at
    lastResetAt,               \* when the flags were last cleared, in hours
    pool_now,                  \* the time, in hours
    pool_op,                   \* the last pool operation and what it saw and returned
    \* TetherMonitor (tether_monitor), its task and the upstream ledger
    ETHERSCAN_API_KEY,         \* the key is set
    last_block_checked,        \* tether_monitor.last_block_checked
    saved_last_block,          \* last_block in TETHER_LAST_FILE (0: no file)
    last_tx_hash,              \* tether_monitor.last_tx_hash
    ledger,                    \* upstream: the transfers of each block, 1..Len(ledger)
    notified,                  \* how often each mint hash was sent to the subscribers
    th_start, th_saved0, th_fetch, th_sent,
    \* the wall clock and, for the slot specification, the task it runs and what
    \* that task did in each slot
    clock,                     \* Taipei time, [hour, minute]
    slot_task,                 \* "whale", "mexc" or "none"
    fires,                     \* how often the report of the current slot was triggered
    reports,                   \* how often the report of the current slot was sent
    ok_ticked,                 \* a tick in the window of the current slot fetched positions
    active_now,                \* a tick got past the early return in this minute
    missed,                    \* some minute went by without such a tick
    \* the tasks step by step, for the specification of their suspension points
    async_task,                \* the task this behaviour runs, or "none"
    whales_changed,            \* tracker.whales was modified under the iterator of auto_update
    view,                      \* what the last on-demand command or button showed its user
    invocations,               \* overlapping invocations of one task: which are suspended
    w_task,                    \* auto_update: where the invocation is and its locals
    m_task,                    \* mexc_auto_update: likewise
    th_task,                   \* tether_update: likewise
    tw_task                    \* twitter_update: likewise

whaleVars == <<whales, last_positions, last_scheduled_push_time>>
whaleObs == <<w_whales, w_prior, w_fetch, w_diffed, w_again, w_sent, w_report, w_post,
              w_call>>
mexcVars == <<last_mexc_positions, last_mexc_push_time, trades_history>>
mexcObs == <<m_prior, m_trades0, m_fetch, m_ran, m_again, m_sent, m_report>>
twitterVars == <<accounts, last_tweets, feed>>
twitterObs == <<t_prior, t_fetch, t_sent, t_fetch0, t_tweets>>
poolVars == <<pool_failed, currentIndex, lastResetAt, pool_now, pool_op>>
procVars == <<TELEGRAM_TOKEN, process>>
cfgVars == <<MEXC_KEYS, TWITTER_BEARER_TOKEN, diff_domain, poolVars, procVars, view>>
envVars == <<cfgVars, whales_changed>>
baseVars == <<m_baseline>>
tetherVars == <<ETHERSCAN_API_KEY, last_block_checked, saved_last_block, last_tx_hash,
                ledger, notified>>
tetherObs == <<th_start, th_saved0, th_fetch, th_sent>>
\* the state that the handlers and tasks defined before the mint monitor leave alone
clockVars == <<clock, slot_task>>
slotHist == <<fires, reports, ok_ticked, active_now, missed>>
asyncVars == <<async_task, invocations, w_task, m_task, th_task, tw_task>>
laterVars == <<tetherVars, clockVars, slotHist, asyncVars>>
laterObs == <<tetherObs>>
vars == <<whaleVars, whaleObs, mexcVars, mexcObs, twitterVars, twitterObs,
          envVars, baseVars, subscribed_chats, laterVars, laterObs>>

(***************************************************************************)
(* Bounds and universes                                                    *)
(***************************************************************************)
MaxTrades == 2
MaxPosts == 2
\* the accounts that exist upstream
Users == {"alice", "bob"}
\* the blocks the ledger can grow to, and how often one hash may be sent
MaxBlock == 2
MaxNotified == 2
\* the transfers that can touch the treasury: two mints (from the multisig)
\* and one other transfer
TxOrder == <<[hash |-> "h1", mint |-> TRUE], [hash |-> "h2", mint |-> TRUE],
            [hash |-> "x1", mint |-> FALSE]>>
MintHashes == {"h1", "h2"}

Chats == {"c1"}
Addrs == {"0xa1", "0xa2"}
DiffAddr == "0xa1"
Coins == {"BTC", "ETH"}
CoinOrder == <<"BTC", "ETH">>
Margins == {0, 90, 100, 109, 110}
CycleMargins == {100}
Hours == {9}
Minutes == {0, 5, 30}
Times == [hour : Hours, minute : Minutes]
\* the hours the clock of the slot specification runs through
FirstHour == 9
LastHour == 9
NoLabel == <<>>

(***************************************************************************)
(* Generic helpers                                                         *)
(***************************************************************************)
Abs(x) == IF x < 0 THEN -x ELSE x

Put(f, k, v) == [x \in (DOMAIN f) \cup {k} |-> IF x = k THEN v ELSE f[x]]

Del(f, k) == [x \in (DOMAIN f) \ {k} |-> f[x]]

EmptyDict == [x \in {} |-> 0]

Range(s) == {s[i] : i \in DOMAIN s}

OrderIdx(order, k) == CHOOSE i \in DOMAIN order : order[i] = k

\* the lists of at most one entry per key, in the order of `order`
ListsOver(entries, order, key_of) ==
    {s \in UNION {[1..n -> entries] : n \in 0..Len(order)} :
        \A i, j \in DOMAIN s :
            i < j => OrderIdx(order, key_of[s[i]]) < OrderIdx(order, key_of[s[j]])}

(***************************************************************************)
(* WhaleTracker.detect_position_changes                                    *)
(***************************************************************************)
\* the elements of assetPositions that a fetch returns
PositionEntriesOver(margins, short_margins) ==
    [coin : Coins, szi : {1}, marginUsed : margins]
        \cup [coin : Coins, szi : {-1}, marginUsed : short_margins]

PositionListsOver(margins, short_margins) ==
    ListsOver(PositionEntriesOver(margins, short_margins), CoinOrder,
              [e \in PositionEntriesOver(margins, short_margins) |-> e.coin])

\* the fetched lists of the diff specification, and those of the task specification
PositionLists == PositionListsOver(Margins, {100})

CyclePositionLists == PositionListsOver(CycleMargins, {})

\* lines 1128-1138: new_pos_dict, the last entry of a coin wins
ToPosDict(new_positions) ==
    [c \in {new_positions[i].coin : i \in DOMAIN new_positions} |->
        LET i == CHOOSE k \in DOMAIN new_positions :
                    /\ new_positions[k].coin = c
                    /\ \A j \in DOMAIN new_positions :
                            new_positions[j].coin = c => j <= k
        IN [szi |-> new_positions[i].szi, margin |-> new_positions[i].marginUsed]]

\* OverThreshold without its old > 0 guard
OverThreshold_Unguarded(old_v, new_v) == Abs(new_v - old_v) * 10 > old_v

\* the condition of lines 1177 and 440 (MEXC):
\*     abs(diff / old) > 0.1 if old > 0 else False
OverThreshold(old_v, new_v) ==
    IF old_v > 0 THEN Abs(new_v - old_v) * 10 > old_v ELSE FALSE

\* lines 1146-1157: one "open" per coin of the new dict that the old one lacks
WhaleOpened(old_pos_dict, new_pos_dict) ==
    LET coins == SelectSeq(CoinOrder,
                 LAMBDA c : c \in DOMAIN new_pos_dict /\ c \notin DOMAIN old_pos_dict)
    IN [i \in DOMAIN coins |-> [kind |-> "open", key |-> coins[i]]]

\* lines 1159-1170: one "close" per coin of the old dict that the new one lacks
WhaleClosed(old_pos_dict, new_pos_dict) ==
    LET coins == SelectSeq(CoinOrder,
                 LAMBDA c : c \in DOMAIN old_pos_dict /\ c \notin DOMAIN new_pos_dict)
    IN [i \in DOMAIN coins |-> [kind |-> "close", key |-> coins[i]]]

\* WhaleChanged that also reports a common coin whose signed size changed sign
WhaleChanged_Directional(old_pos_dict, new_pos_dict) ==
    LET coins == SelectSeq(CoinOrder,
                 LAMBDA c : /\ c \in DOMAIN new_pos_dict
                            /\ c \in DOMAIN old_pos_dict
                            /\ \/ OverThreshold(old_pos_dict[c].margin,
                                                new_pos_dict[c].margin)
                               \/ old_pos_dict[c].szi * new_pos_dict[c].szi < 0)
    IN [i \in DOMAIN coins |->
          [kind |-> IF new_pos_dict[coins[i]].margin - old_pos_dict[coins[i]].margin > 0
                    THEN "add" ELSE "reduce",
           key |-> coins[i]]]

\* lines 1172-1199: "add" or "reduce" for a common coin whose margin moved
WhaleChanged(old_pos_dict, new_pos_dict) ==
    LET coins == SelectSeq(CoinOrder,
                 LAMBDA c : /\ c \in DOMAIN new_pos_dict
                            /\ c \in DOMAIN old_pos_dict
                            /\ OverThreshold(old_pos_dict[c].margin,
                                             new_pos_dict[c].margin))
    IN [i \in DOMAIN coins |->
          [kind |-> IF new_pos_dict[coins[i]].margin - old_pos_dict[coins[i]].margin > 0
                    THEN "add" ELSE "reduce",
           key |-> coins[i]]]

\* WhaleDetect without the first-observation branch of lines 1140-1142
WhaleDetect_NoBaseline(lp, address, new_positions) ==
    LET new_pos_dict == ToPosDict(new_positions)
        old_pos_dict == IF address \in DOMAIN lp THEN lp[address] ELSE EmptyDict
    IN [notifications |-> WhaleOpened(old_pos_dict, new_pos_dict)
                              \o WhaleClosed(old_pos_dict, new_pos_dict)
                              \o WhaleChanged(old_pos_dict, new_pos_dict),
        last_positions |-> Put(lp, address, new_pos_dict)]

\* WhaleDetect without the commit of line 1201
WhaleDetect_NoCommit(lp, address, new_positions) ==
    LET new_pos_dict == ToPosDict(new_positions) IN
    IF address \notin DOMAIN lp
    THEN [notifications |-> <<>>, last_positions |-> Put(lp, address, new_pos_dict)]
    ELSE [notifications |-> WhaleOpened(lp[address], new_pos_dict)
                                \o WhaleClosed(lp[address], new_pos_dict)
                                \o WhaleChanged(lp[address], new_pos_dict),
          last_positions |-> lp]

\* WhaleDetect with the loop of lines 1159-1170 placed after that of 1172-1199
WhaleDetect_ClosedLast(lp, address, new_positions) ==
    LET new_pos_dict == ToPosDict(new_positions) IN
    IF address \notin DOMAIN lp
    THEN [notifications |-> <<>>, last_positions |-> Put(lp, address, new_pos_dict)]
    ELSE [notifications |-> WhaleOpened(lp[address], new_pos_dict)
                                \o WhaleChanged(lp[address], new_pos_dict)
                                \o WhaleClosed(lp[address], new_pos_dict),
          last_positions |-> Put(lp, address, new_pos_dict)]

\* lines 1123-1203: the notifications returned and self.last_positions afterwards
WhaleDetect(lp, address, new_positions) ==
    LET new_pos_dict == ToPosDict(new_positions) IN
    IF address \notin DOMAIN lp
    THEN [notifications |-> <<>>, last_positions |-> Put(lp, address, new_pos_dict)]
    ELSE [notifications |-> WhaleOpened(lp[address], new_pos_dict)
                                \o WhaleClosed(lp[address], new_pos_dict)
                                \o WhaleChanged(lp[address], new_pos_dict),
          last_positions |-> Put(lp, address, new_pos_dict)]

\* a notification of an address, as the task sends it
Tagged(address, notifications) ==
    [i \in DOMAIN notifications |->
        [address |-> address, kind |-> notifications[i].kind,
         key |-> notifications[i].key]]

(***************************************************************************)
(* MEXCTracker.detect_position_changes and record_trade                    *)
(***************************************************************************)
Symbols == {"BTC_USDT"}
PositionTypes == {1, 2}
\* key = f"{symbol}_{position_type}", modelled as the pair it is built from
KeyOrder == <<(<<"BTC_USDT", 1>>), (<<"BTC_USDT", 2>>)>>
Vols == {0, 90, 100, 109, 110}
CycleVols == {0, 100}

MexcKey(symbol, position_type) == <<symbol, position_type>>

\* key.rsplit('_', 1)[0]
SymbolOfKey(key) == key[1]

MexcEntriesOver(vols) == [symbol : Symbols, positionType : PositionTypes, holdVol : vols]

MexcListsOver(vols) ==
    ListsOver(MexcEntriesOver(vols), KeyOrder,
              [e \in MexcEntriesOver(vols) |-> MexcKey(e.symbol, e.positionType)])

MexcLists == MexcListsOver(Vols)

CycleMexcLists == MexcListsOver(CycleVols)

\* lines 373-385: new_pos_dict, the last entry of a key wins
ToMexcDict(new_positions) ==
    [k \in {MexcKey(new_positions[i].symbol, new_positions[i].positionType) :
                i \in DOMAIN new_positions} |->
        LET i == CHOOSE n \in DOMAIN new_positions :
                    /\ MexcKey(new_positions[n].symbol, new_positions[n].positionType) = k
                    /\ \A j \in DOMAIN new_positions :
                            MexcKey(new_positions[j].symbol,
                                    new_positions[j].positionType) = k => j <= n
        IN [hold_vol |-> new_positions[i].holdVol,
            position_type |-> new_positions[i].positionType]]

Direction(position_type) == IF position_type = 1 THEN "long" ELSE "short"

\* lines 387-409
MexcOpened(old_positions, new_pos_dict) ==
    LET keys == SelectSeq(KeyOrder,
                 LAMBDA k : k \in DOMAIN new_pos_dict /\ k \notin DOMAIN old_positions)
    IN [i \in DOMAIN keys |->
          [kind |-> "open", key |-> keys[i],
           direction |-> Direction(new_pos_dict[keys[i]].position_type)]]

\* lines 411-433
MexcClosed(old_positions, new_pos_dict) ==
    LET keys == SelectSeq(KeyOrder,
                 LAMBDA k : k \in DOMAIN old_positions /\ k \notin DOMAIN new_pos_dict)
    IN [i \in DOMAIN keys |->
          [kind |-> "close", key |-> keys[i],
           direction |-> Direction(old_positions[keys[i]].position_type)]]

\* lines 435-483
MexcChanged(old_positions, new_pos_dict) ==
    LET keys == SelectSeq(KeyOrder,
                 LAMBDA k : /\ k \in DOMAIN new_pos_dict
                            /\ k \in DOMAIN old_positions
                            /\ OverThreshold(old_positions[k].hold_vol,
                                             new_pos_dict[k].hold_vol))
    IN [i \in DOMAIN keys |->
          [kind |-> IF new_pos_dict[keys[i]].hold_vol - old_positions[keys[i]].hold_vol > 0
                    THEN "add" ELSE "reduce",
           key |-> keys[i],
           direction |-> Direction(new_pos_dict[keys[i]].position_type)]]

\* TradeOf writing the action of the first loop for every change
TradeOf_Open(n) == [symbol |-> SymbolOfKey(n.key), action |-> "open", direction |-> n.direction]

\* lines 265-270: the record appended for one detected change
TradeOf(n) == [symbol |-> SymbolOfKey(n.key), action |-> n.kind, direction |-> n.direction]

\* lines 368-485: the notifications and new_pos_dict returned, and
\* self.trades_history afterwards (one record_trade per notification)
MexcDetect(old_positions, new_positions, trades) ==
    LET new_pos_dict == ToMexcDict(new_positions)
        notifications == MexcOpened(old_positions, new_pos_dict)
                            \o MexcClosed(old_positions, new_pos_dict)
                            \o MexcChanged(old_positions, new_pos_dict)
    IN [notifications |-> notifications,
        new_pos_dict |-> new_pos_dict,
        trades_history |-> trades \o [i \in DOMAIN notifications |->
                                        TradeOf(notifications[i])]]

MexcNote(n) == [kind |-> n.kind, key |-> n.key]

(***************************************************************************)
(* The diff specification: the two detectors applied to arbitrary prior    *)
(* and fresh snapshots.                                                    *)
(***************************************************************************)
NoFetch == [status |-> "none", data |-> <<>>]

\* tracker.detect_position_changes(DiffAddr, new_positions), lines 1123-1203
WhaleDetectCall(new_positions) ==
    LET r == WhaleDetect(last_positions, DiffAddr, new_positions) IN
    /\ diff_domain = "whale"
    /\ last_positions' = r.last_positions
    /\ w_prior' = last_positions
    /\ w_post' = r.last_positions
    /\ w_fetch' = [a \in {DiffAddr} |-> [status |-> "ok", data |-> new_positions]]
    /\ w_diffed' = {DiffAddr}
    /\ w_again' = {a \in w_diffed : w_fetch[a].data = new_positions}
    /\ w_sent' = Tagged(DiffAddr, r.notifications)
    /\ UNCHANGED <<whales, last_scheduled_push_time, w_whales, w_report, w_call, mexcVars,
                   mexcObs, twitterVars, twitterObs, envVars, laterVars, laterObs, baseVars,
                   subscribed_chats>>

\* lines 2339 and 2362: the diff against last_mexc_positions and its commit
MexcDetectCall(new_positions) ==
    LET r == MexcDetect(last_mexc_positions, new_positions, trades_history) IN
    /\ diff_domain = "mexc"
    /\ Len(r.trades_history) <= MaxTrades
    /\ last_mexc_positions' = r.new_pos_dict
    /\ trades_history' = r.trades_history
    /\ m_prior' = last_mexc_positions
    /\ m_trades0' = Len(trades_history)
    /\ m_baseline' = IF m_baseline = "pending" THEN "now" ELSE "done"
    /\ m_fetch' = [status |-> "ok", data |-> new_positions]
    /\ m_ran' = "diffed"
    /\ m_again' = (m_ran = "diffed" /\ m_fetch.data = new_positions)
    /\ m_sent' = [i \in DOMAIN r.notifications |-> MexcNote(r.notifications[i])]
    /\ UNCHANGED <<last_mexc_push_time, m_report, whaleVars, whaleObs,
                   twitterVars, twitterObs, envVars, laterVars, laterObs, subscribed_chats>>

\* the last step was no call of add_whale or remove_whale
NoCall == [op |-> "none", address |-> "", ret |-> FALSE]

WhaleObsInit ==
    /\ w_whales = <<>> /\ w_prior = EmptyDict /\ w_fetch = EmptyDict
    /\ w_diffed = {} /\ w_again = {} /\ w_sent = <<>> /\ w_report = {}
    /\ w_post = EmptyDict
    /\ w_call = NoCall

MexcObsInit ==
    /\ m_prior = EmptyDict /\ m_trades0 = 0 /\ m_fetch = NoFetch /\ m_ran = "never"
    /\ m_again = FALSE /\ m_sent = <<>> /\ m_report = FALSE

TwitterObsInit ==
    /\ t_prior = EmptyDict /\ t_fetch = EmptyDict /\ t_sent = <<>>
    /\ t_fetch0 = EmptyDict /\ t_tweets = EmptyDict

TetherObsInit == th_start = 0 /\ th_saved0 = 0 /\ th_fetch = "none" /\ th_sent = <<>>

\* no on-demand command or button has answered yet
NoView == [cmd |-> "none", shown |-> <<>>]

\* no invocation is in progress and none has run; pc is the suspension point,
\* ended tells how the last invocation ended, exc what it raised
IdleTask ==
    [pc |-> "idle", ended |-> "never", exc |-> "none", should_push |-> FALSE,
     todo |-> <<>>, dict_n |-> 0, addr |-> "", positions |-> <<>>, notes |-> <<>>,
     new_pos_dict |-> EmptyDict, committed |-> FALSE,
     phase |-> "none", left |-> {}, iter_n |-> 0, chat |-> "",
     disp0 |-> {}, log |-> <<>>]

\* the process starts at FirstHour:00; no slot has been seen
SlotInit ==
    /\ clock = [hour |-> FirstHour, minute |-> 0]
    /\ fires = 0
    /\ reports = 0
    /\ ok_ticked = FALSE
    /\ active_now = FALSE
    /\ missed = FALSE

\* lines 769-771, with no TETHER_LAST_FILE; nothing is on the ledger yet
TetherInit ==
    /\ last_block_checked = 0
    /\ saved_last_block = 0
    /\ last_tx_hash = ""
    /\ ledger = <<>>
    /\ notified = [h \in MintHashes |-> 0]

\* a command handler ran: the observations of the last task invocation are dropped
ObsResetTasks ==
    /\ w_whales' = <<>> /\ w_prior' = EmptyDict /\ w_fetch' = EmptyDict
    /\ w_diffed' = {} /\ w_again' = {} /\ w_sent' = <<>> /\ w_report' = {}
    /\ w_post' = EmptyDict
    /\ m_prior' = EmptyDict /\ m_trades0' = 0 /\ m_fetch' = NoFetch /\ m_ran' = "never"
    /\ m_again' = FALSE /\ m_sent' = <<>> /\ m_report' = FALSE
    /\ m_baseline' = IF m_baseline = "now" THEN "done" ELSE m_baseline
    /\ t_prior' = EmptyDict /\ t_fetch' = EmptyDict /\ t_sent' = <<>>
    /\ t_fetch0' = EmptyDict /\ t_tweets' = EmptyDict
    /\ th_start' = 0 /\ th_saved0' = 0 /\ th_fetch' = "none" /\ th_sent' = <<>>

\* a handler other than the two registry operations on the whales
ObsReset == ObsResetTasks /\ w_call' = NoCall

\* how many invocations of one task may be in progress at once
MaxInvocations == 2

\* the credentials of the pool, and how far its clock runs
PoolSize == 3
MaxNow == 30

\* hours between two looks at the clock
TickHours == 6

\* hours after which the failed flags are forgiven
ResetPeriod == 24

NoPoolOp == [op |-> "none", got |-> 0, elapsed |-> 0, failed0 |-> <<>>]

\* a new pool: nothing failed, the scan starts at the first credential
PoolInit ==
    /\ pool_failed = [i \in 1..PoolSize |-> FALSE]
    /\ currentIndex = 1
    /\ lastResetAt = 0
    /\ pool_now = 0
    /\ pool_op = NoPoolOp

\* the stores and registries of a process without files
InitState ==
    /\ PoolInit
    /\ whales = <<>>
    /\ last_positions = EmptyDict
    /\ subscribed_chats = {}
    /\ last_scheduled_push_time = NoLabel
    /\ last_mexc_positions = EmptyDict
    /\ last_mexc_push_time = NoLabel
    /\ trades_history = <<>>
    /\ accounts = <<>>
    /\ last_tweets = EmptyDict
    /\ feed = [u \in Users |-> 0]
    /\ WhaleObsInit /\ MexcObsInit /\ TwitterObsInit
    /\ TetherInit /\ TetherObsInit
    /\ SlotInit
    /\ w_task = IdleTask /\ m_task = IdleTask /\ th_task = IdleTask /\ tw_task = IdleTask
    /\ invocations = [i \in 1..MaxInvocations |-> FALSE]
    /\ whales_changed = FALSE
    /\ view = NoView
    /\ m_baseline = "pending"

\* the process got past the import and main set up the jobs
InitCommon ==
    /\ InitState
    /\ TELEGRAM_TOKEN = TRUE
    /\ process = "running"

InitDiff ==
    /\ InitCommon
    /\ async_task = "none"
    /\ slot_task = "none"
    /\ ETHERSCAN_API_KEY = TRUE
    /\ MEXC_KEYS = TRUE
    /\ TWITTER_BEARER_TOKEN = TRUE
    /\ diff_domain \in {"whale", "mexc"}

NextDiff ==
    \/ \E ps \in PositionLists : WhaleDetectCall(ps)
    \/ \E ps \in MexcLists : MexcDetectCall(ps)

SpecDiff == InitDiff /\ [][NextDiff]_vars

(***************************************************************************)
(* Claims about the detectors (SpecDiff)                                   *)
(***************************************************************************)
\* the fresh snapshot a list of fetched whale positions stands for
IsSnapshotOf(snap, positions) ==
    /\ DOMAIN snap = {positions[i].coin : i \in DOMAIN positions}
    /\ \A i \in DOMAIN positions :
          /\ snap[positions[i].coin].margin = positions[i].marginUsed
          /\ snap[positions[i].coin].szi = positions[i].szi

IsMexcSnapshotOf(snap, positions) ==
    /\ DOMAIN snap = {MexcKey(positions[i].symbol, positions[i].positionType) :
                          i \in DOMAIN positions}
    /\ \A i \in DOMAIN positions :
          snap[MexcKey(positions[i].symbol, positions[i].positionType)].hold_vol
              = positions[i].holdVol

WhaleSentFor(a) == SelectSeq(w_sent, LAMBDA n : n.address = a)

WhaleKindsOf(a, key) ==
    {n.kind : n \in {m \in Range(w_sent) : m.address = a /\ m.key = key}}

MexcKindsOf(key) == {n.kind : n \in {m \in Range(m_sent) : m.key = key}}

\* C1: the first detect_position_changes call for an address without a stored
\* snapshot returns no notifications and stores the fetched positions as the
\* snapshot of that address.
C1_WhaleBaseline ==
    \A a \in w_diffed :
        a \notin DOMAIN w_prior =>
            /\ WhaleSentFor(a) = <<>>
            /\ a \in DOMAIN w_post
            /\ IsSnapshotOf(w_post[a], w_fetch[a].data)

C1_Witness ==
    /\ DiffAddr \in w_diffed
    /\ DiffAddr \notin DOMAIN w_prior
    /\ Len(w_fetch[DiffAddr].data) = 2

\* C4: once a diff has committed the fresh snapshot S, the following diff, when
\* its fetch returns the same S, yields no change notification (whale and MEXC);
\* w_again and m_again mark such a repeated fetch.
C4_IdempotentCommit ==
    /\ \A a \in w_again : WhaleSentFor(a) = <<>>
    /\ m_again => m_sent = <<>>

C4_Witness ==
    /\ DiffAddr \in w_again
    /\ Len(w_fetch[DiffAddr].data) = 2
    /\ w_prior[DiffAddr]["BTC"].margin = 110

\* C5 (as claimed): for a sub-key in both snapshots with prior > 0 an
\* Increased/Decreased event is emitted exactly when |new - prior| / |prior| >= 0.10.
C5_InclusiveThreshold ==
    /\ \A a \in w_diffed : a \in DOMAIN w_prior =>
          \A c \in (DOMAIN w_prior[a]) \cap (DOMAIN w_post[a]) :
              w_prior[a][c].margin > 0 =>
                  ((WhaleKindsOf(a, c) \cap {"add", "reduce"} # {})
                      <=> Abs(w_post[a][c].margin - w_prior[a][c].margin) * 10
                              >= w_prior[a][c].margin)
    /\ m_ran = "diffed" =>
          \A k \in (DOMAIN m_prior) \cap (DOMAIN last_mexc_positions) :
              m_prior[k].hold_vol > 0 =>
                  ((MexcKindsOf(k) \cap {"add", "reduce"} # {})
                      <=> Abs(last_mexc_positions[k].hold_vol - m_prior[k].hold_vol) * 10
                              >= m_prior[k].hold_vol)

\* C6: for a sub-key in both snapshots whose prior magnitude is 0 no
\* Increased and no Decreased event is emitted, whatever the new value, and
\* the fresh value is committed.
C6_ZeroPrior ==
    /\ \A a \in w_diffed : a \in DOMAIN w_prior =>
          \A i \in DOMAIN w_fetch[a].data :
              LET e == w_fetch[a].data[i] IN
              (e.coin \in DOMAIN w_prior[a] /\ w_prior[a][e.coin].margin = 0) =>
                  /\ WhaleKindsOf(a, e.coin) = {}
                  /\ w_post[a][e.coin].margin = e.marginUsed
    /\ m_ran = "diffed" =>
          \A i \in DOMAIN m_fetch.data :
              LET e == m_fetch.data[i]
                  k == MexcKey(e.symbol, e.positionType) IN
              (k \in DOMAIN m_prior /\ m_prior[k].hold_vol = 0) =>
                  /\ MexcKindsOf(k) = {}
                  /\ last_mexc_positions[k].hold_vol = e.holdVol

C6_Witness ==
    /\ DiffAddr \in w_diffed
    /\ DiffAddr \in DOMAIN w_prior
    /\ "BTC" \in DOMAIN w_prior[DiffAddr]
    /\ w_prior[DiffAddr]["BTC"].margin = 0
    /\ "BTC" \in DOMAIN w_post[DiffAddr]
    /\ w_post[DiffAddr]["BTC"].margin = 90

\* the events the reference diff derives from prior P and fresh F
RefEvents(P, F) ==
    {[kind |-> "open", key |-> c] : c \in (DOMAIN F) \ (DOMAIN P)}
    \cup {[kind |-> "close", key |-> c] : c \in (DOMAIN P) \ (DOMAIN F)}
    \cup {[kind |-> "add", key |-> c] :
            c \in {x \in (DOMAIN P) \cap (DOMAIN F) :
                      /\ P[x].margin > 0
                      /\ F[x].margin > P[x].margin
                      /\ (F[x].margin - P[x].margin) * 10 >= P[x].margin}}
    \cup {[kind |-> "reduce", key |-> c] :
            c \in {x \in (DOMAIN P) \cap (DOMAIN F) :
                      /\ P[x].margin > 0
                      /\ F[x].margin < P[x].margin
                      /\ (P[x].margin - F[x].margin) * 10 >= P[x].margin}}

\* C8 (as claimed): with a stored prior P and fresh F the emitted events are
\* exactly those of the reference diff, one each, and the committed snapshot is F.
C8_ReferenceDiff ==
    \A a \in w_diffed : a \in DOMAIN w_prior =>
        /\ IsSnapshotOf(w_post[a], w_fetch[a].data)
        /\ {[kind |-> n.kind, key |-> n.key] : n \in Range(WhaleSentFor(a))}
              = RefEvents(w_prior[a], w_post[a])
        /\ Len(WhaleSentFor(a)) = Cardinality(RefEvents(w_prior[a], w_post[a]))

(***************************************************************************)
(* Command handlers                                                        *)
(***************************************************************************)
\* the strings abbreviate 42-character addresses; "a1" lacks the 0x prefix and
\* "0xa1ff" has another length
AddressInputs == {"0xa1", "0xA1", "0xa2", "a1", "0xa1ff"}

StartsWith0x(address) == address \in {"0xa1", "0xA1", "0xa2", "0xa1ff"}

HasLen42(address) == address \in {"0xa1", "0xA1", "0xa2", "a1"}

\* str.lower()
Lower(address) == IF address = "0xA1" THEN "0xa1" ELSE address

\* lines 1293-1299: /start subscribes the chat
Start(chat_id) ==
    /\ subscribed_chats' = subscribed_chats \cup {chat_id}
    /\ ObsReset
    /\ UNCHANGED <<whaleVars, mexcVars, twitterVars, envVars, laterVars>>

\* an insertion or a deletion while auto_update is suspended inside its loop
\* over tracker.whales happens under the dict iterator of that loop
UnderIterator(before, after) ==
    whales_changed \/ (w_task.pc # "idle" /\ after # before)

\* add_whale storing the address as it was given
AddWhale_KeepCase(address) ==
    /\ IF ~StartsWith0x(address) \/ ~HasLen42(address)
       THEN whales' = whales
       ELSE whales' = IF address \in Range(whales) THEN whales ELSE Append(whales, address)
    /\ \E saved \in BOOLEAN :
          w_call' = [op |-> "add_whale", address |-> address,
                     ret |-> StartsWith0x(address) /\ HasLen42(address) /\ saved]
    /\ whales_changed' = UnderIterator(whales, whales')
    /\ ObsResetTasks
    /\ UNCHANGED <<last_positions, last_scheduled_push_time, mexcVars, twitterVars,
                   cfgVars, laterVars, subscribed_chats>>

\* lines 1025-1039: add_whale; a key already present keeps its place in the dict;
\* save_whales (lines 996-1000) can raise after the dict was written, and the
\* call then returns False
AddWhale(address) ==
    /\ IF ~StartsWith0x(address) \/ ~HasLen42(address)
       THEN whales' = whales
       ELSE whales' = IF Lower(address) \in Range(whales)
                      THEN whales
                      ELSE Append(whales, Lower(address))
    /\ \E saved \in BOOLEAN :
          w_call' = [op |-> "add_whale", address |-> address,
                     ret |-> StartsWith0x(address) /\ HasLen42(address) /\ saved]
    /\ whales_changed' = UnderIterator(whales, whales')
    /\ ObsResetTasks
    /\ UNCHANGED <<last_positions, last_scheduled_push_time, mexcVars, twitterVars,
                   cfgVars, laterVars, subscribed_chats>>

\* lines 1041-1056: remove_whale drops the registry entry and the snapshot
RemoveWhale(address) ==
    /\ IF Lower(address) \in Range(whales)
       THEN /\ whales' = SelectSeq(whales, LAMBDA a : a # Lower(address))
            /\ last_positions' = IF Lower(address) \in DOMAIN last_positions
                                 THEN Del(last_positions, Lower(address))
                                 ELSE last_positions
       ELSE UNCHANGED <<whales, last_positions>>
    /\ \E saved \in BOOLEAN :
          w_call' = [op |-> "remove_whale", address |-> address,
                     ret |-> Lower(address) \in Range(whales) /\ saved]
    /\ whales_changed' = UnderIterator(whales, whales')
    /\ ObsResetTasks
    /\ UNCHANGED <<last_scheduled_push_time, mexcVars, twitterVars, cfgVars, laterVars,
                   subscribed_chats>>

(***************************************************************************)
(* auto_update: the whale task                                             *)
(***************************************************************************)
\* what the upstream answers: status 200 with assetPositions, or a failure
\* (another status, a timeout, an exception)
WhaleResponses ==
    {[status |-> "ok", data |-> ps] : ps \in CyclePositionLists}
        \cup {[status |-> "error", data |-> <<>>]}

\* lines 1058-1074: fetch_positions returns [] unless the status is 200
WhaleFetch(resp) == IF resp.status = "ok" THEN resp.data ELSE <<>>

\* WhaleTimeMark labelling every minute
WhaleTimeMark_Minute(now) == <<now.hour, now.minute>>

\* lines 2199-2202
WhaleTimeMark(now) == <<now.hour, IF now.minute >= 30 THEN 30 ELSE 0>>

\* line 2205
InWhaleWindow(now) ==
    (0 <= now.minute /\ now.minute <= 4) \/ (30 <= now.minute /\ now.minute <= 34)

NoLoop(lp) == [last_positions |-> lp, fetched |-> {}, diffed |-> {}, sent |-> <<>>,
               report |-> {}]

\* WhaleLoop leaving the loop at the first address without positions
RECURSIVE WhaleLoop_Break(_, _, _, _)
WhaleLoop_Break(addresses, lp, resp, should_push) ==
    IF addresses = <<>> THEN NoLoop(lp)
    ELSE LET address == Head(addresses)
             positions == WhaleFetch(resp[address])
         IN IF positions = <<>>
            THEN [NoLoop(lp) EXCEPT !.fetched = {address}]
            ELSE LET r == WhaleDetect(lp, address, positions)
                     t == WhaleLoop_Break(Tail(addresses), r.last_positions, resp,
                                          should_push)
                 IN [last_positions |-> t.last_positions,
                     fetched |-> {address} \cup t.fetched,
                     diffed |-> {address} \cup t.diffed,
                     sent |-> Tagged(address, r.notifications) \o t.sent,
                     report |-> (IF should_push THEN {address} ELSE {}) \cup t.report]

\* lines 2221-2274: the loop over tracker.whales
RECURSIVE WhaleLoop(_, _, _, _)
WhaleLoop(addresses, lp, resp, should_push) ==
    IF addresses = <<>> THEN NoLoop(lp)
    ELSE LET address == Head(addresses)
             positions == WhaleFetch(resp[address])
         IN IF positions = <<>>
            THEN LET t == WhaleLoop(Tail(addresses), lp, resp, should_push)
                 IN [t EXCEPT !.fetched = {address} \cup t.fetched]
            ELSE LET r == WhaleDetect(lp, address, positions)
                     t == WhaleLoop(Tail(addresses), r.last_positions, resp, should_push)
                 IN [last_positions |-> t.last_positions,
                     fetched |-> {address} \cup t.fetched,
                     diffed |-> {address} \cup t.diffed,
                     sent |-> Tagged(address, r.notifications) \o t.sent,
                     report |-> (IF should_push THEN {address} ELSE {}) \cup t.report]

\* lines 2177-2279: one invocation of auto_update at wall-clock time now, the
\* upstream answering resp[address]
AutoUpdate(now, resp) ==
    /\ w_whales' = whales
    /\ w_call' = NoCall
    /\ w_prior' = last_positions
    /\ IF whales = <<>> \/ subscribed_chats = {}
       THEN /\ w_fetch' = EmptyDict /\ w_diffed' = {} /\ w_again' = {}
            /\ w_sent' = <<>> /\ w_report' = {} /\ w_post' = last_positions
            /\ UNCHANGED <<last_positions, last_scheduled_push_time>>
       ELSE LET should_push == /\ InWhaleWindow(now)
                               /\ last_scheduled_push_time # WhaleTimeMark(now)
                r == WhaleLoop(whales, last_positions, resp, should_push)
            IN /\ last_scheduled_push_time' =
                      IF should_push THEN WhaleTimeMark(now) ELSE last_scheduled_push_time
               /\ last_positions' = r.last_positions
               /\ w_post' = r.last_positions
               /\ w_fetch' = [a \in r.fetched |->
                                [status |-> resp[a].status, data |-> WhaleFetch(resp[a])]]
               /\ w_diffed' = r.diffed
               /\ w_again' = {a \in r.diffed \cap w_diffed :
                                w_fetch[a].data = WhaleFetch(resp[a])}
               /\ w_sent' = r.sent
               /\ w_report' = r.report
    /\ UNCHANGED <<whales, mexcVars, mexcObs, twitterVars, twitterObs, envVars, tetherVars, clockVars, asyncVars,
                   laterObs,
                   baseVars, subscribed_chats>>

InitWhale ==
    /\ InitCommon
    /\ async_task = "none"
    /\ slot_task = "none"
    /\ ETHERSCAN_API_KEY = TRUE
    /\ MEXC_KEYS = TRUE
    /\ TWITTER_BEARER_TOKEN = TRUE
    /\ diff_domain = "none"

NextWhale ==
    \/ \E chat_id \in Chats : Start(chat_id)
    \/ \E address \in AddressInputs : AddWhale(address)
    \/ \E address \in AddressInputs : RemoveWhale(address)
    \/ \E now \in Times : \E resp \in [Range(whales) -> WhaleResponses] :
          AutoUpdate(now, resp) /\ UNCHANGED slotHist

SpecWhale == InitWhale /\ [][NextWhale]_vars

(***************************************************************************)
(* Claims about the whale task (SpecWhale)                                 *)
(***************************************************************************)
\* C7 (as claimed): for every tracked address with a stored snapshot P and a
\* successfully fetched F, also an F without positions, each sub-key of P that
\* F lacks yields a Closed notification and the stored snapshot becomes F.
C7_ClosedDetected ==
    \A a \in DOMAIN w_fetch :
        (w_fetch[a].status = "ok" /\ a \in DOMAIN w_prior) =>
            /\ \A c \in DOMAIN w_prior[a] :
                  c \notin {w_fetch[a].data[i].coin : i \in DOMAIN w_fetch[a].data}
                      => "close" \in WhaleKindsOf(a, c)
            /\ a \in DOMAIN w_post
            /\ IsSnapshotOf(w_post[a], w_fetch[a].data)

MexcResponses ==
    {[status |-> "ok", data |-> ps] : ps \in CycleMexcLists}
        \cup {[status |-> st, data |-> <<>>] :
                st \in {"http_error", "api_error", "exception"}}

\* lines 114-155: fetch_positions keeps the positions whose holdVol is not 0,
\* and returns [] without credentials and on every failure
MexcFetch(keys_set, resp) ==
    IF keys_set /\ resp.status = "ok"
    THEN SelectSeq(resp.data, LAMBDA e : e.holdVol # 0)
    ELSE <<>>

\* lines 2301-2308
MexcTimeMark(now) ==
    <<now.hour,
      IF now.minute < 15 THEN 0
      ELSE IF now.minute < 30 THEN 15
      ELSE IF now.minute < 45 THEN 30
      ELSE 45>>

\* lines 2311-2316
InMexcWindow(now) ==
    \/ (0 <= now.minute /\ now.minute <= 2)
    \/ (15 <= now.minute /\ now.minute <= 17)
    \/ (30 <= now.minute /\ now.minute <= 32)
    \/ (45 <= now.minute /\ now.minute <= 47)

\* lines 2281-2390: one invocation of mexc_auto_update at wall-clock time now,
\* the upstream answering resp
MexcAutoUpdate(now, resp) ==
    LET positions == MexcFetch(MEXC_KEYS, resp)
        should_push == InMexcWindow(now) /\ last_mexc_push_time # MexcTimeMark(now)
        r == MexcDetect(last_mexc_positions, positions, trades_history)
    IN
    /\ m_prior' = last_mexc_positions
    /\ m_trades0' = Len(trades_history)
    /\ IF subscribed_chats = {} \/ ~MEXC_KEYS
       THEN /\ m_ran' = "skipped" /\ m_fetch' = NoFetch
            /\ m_again' = FALSE /\ m_sent' = <<>> /\ m_report' = FALSE
            /\ m_baseline' = IF m_baseline = "now" THEN "done" ELSE m_baseline
            /\ UNCHANGED mexcVars
       ELSE /\ last_mexc_push_time' =
                  IF should_push THEN MexcTimeMark(now) ELSE last_mexc_push_time
            /\ m_fetch' = [status |-> resp.status, data |-> positions]
            /\ IF positions = <<>> /\ last_mexc_positions = EmptyDict
               THEN /\ m_ran' = "nopos"
                    /\ m_again' = FALSE /\ m_sent' = <<>> /\ m_report' = FALSE
                    /\ m_baseline' = IF m_baseline = "now" THEN "done" ELSE m_baseline
                    /\ UNCHANGED <<last_mexc_positions, trades_history>>
               ELSE /\ Len(r.trades_history) <= MaxTrades
                    /\ m_ran' = "diffed"
                    /\ m_baseline' = IF m_baseline = "pending" THEN "now" ELSE "done"
                    /\ m_again' = (m_ran = "diffed" /\ m_fetch.data = positions)
                    /\ trades_history' = r.trades_history
                    /\ m_sent' = [i \in DOMAIN r.notifications |-> MexcNote(r.notifications[i])]
                    /\ last_mexc_positions' = r.new_pos_dict
                    /\ m_report' = (should_push /\ positions # <<>>)
    /\ UNCHANGED <<whaleVars, whaleObs, twitterVars, twitterObs, envVars, tetherVars, clockVars, asyncVars,
                   laterObs,
                   subscribed_chats>>

InitMexc ==
    /\ InitCommon
    /\ async_task = "none"
    /\ slot_task = "none"
    /\ ETHERSCAN_API_KEY = TRUE
    /\ MEXC_KEYS \in BOOLEAN
    /\ TWITTER_BEARER_TOKEN = TRUE
    /\ diff_domain = "none"

NextMexc ==
    \/ \E chat_id \in Chats : Start(chat_id)
    \/ \E now \in Times : \E resp \in MexcResponses :
          MexcAutoUpdate(now, resp) /\ UNCHANGED slotHist

SpecMexc == InitMexc /\ [][NextMexc]_vars

(***************************************************************************)
(* Claims about the MEXC task (SpecMexc)                                   *)
(***************************************************************************)
\* C2 (as claimed): the first mexc_auto_update cycle that observes positions,
\* the stored snapshot being still its initial value, emits no change
\* notification and records no trade.
C2_MexcBaseline ==
    (m_ran = "diffed" /\ m_baseline = "now") =>
        /\ m_sent = <<>>
        /\ Len(trades_history) = m_trades0

\* C9 (as claimed): when the MEXC position fetch fails, the cycle emits no
\* change notification, records no trade and leaves last_mexc_positions unchanged.
C9_MexcFetchFailure ==
    m_fetch.status \in {"http_error", "api_error", "exception"} =>
        /\ m_sent = <<>>
        /\ Len(trades_history) = m_trades0
        /\ last_mexc_positions = m_prior

(***************************************************************************)
(* twitter_update: the post-feed task                                      *)
(***************************************************************************)
UsernameInputs == {"alice", "@Alice", "bob"}

\* line 578: username.lstrip('@').lower().strip()
NormalizeUsername(username) == IF username = "@Alice" THEN "alice" ELSE username

\* line 653: max_results
MaxResults == 5

\* lines 575-587: add_account; a key already present keeps its place in the dict
AddAccount(username) ==
    /\ accounts' = IF NormalizeUsername(username) \in Range(accounts)
                   THEN accounts
                   ELSE Append(accounts, NormalizeUsername(username))
    /\ ObsReset
    /\ UNCHANGED <<last_tweets, feed, whaleVars, mexcVars, envVars, laterVars, subscribed_chats>>

\* lines 589-604: remove_account drops the registry entry and the last tweet id
RemoveAccount(username) ==
    LET u == NormalizeUsername(username) IN
    /\ IF u \in Range(accounts)
       THEN /\ accounts' = SelectSeq(accounts, LAMBDA a : a # u)
            /\ last_tweets' = IF u \in DOMAIN last_tweets
                              THEN Del(last_tweets, u)
                              ELSE last_tweets
       ELSE UNCHANGED <<accounts, last_tweets>>
    /\ ObsReset
    /\ UNCHANGED <<feed, whaleVars, mexcVars, envVars, laterVars, subscribed_chats>>

\* the upstream: the account publishes a post, which takes the next id
Post(username) ==
    /\ feed[username] < MaxPosts
    /\ feed' = [feed EXCEPT ![username] = @ + 1]
    /\ UNCHANGED <<accounts, last_tweets, whaleVars, whaleObs, mexcVars, mexcObs,
                   twitterObs, envVars, laterVars, laterObs, baseVars, subscribed_chats>>

\* how a request is answered: the user lookup fails, the timeline request is
\* rejected with status 429, it fails otherwise (another status, a timeout, an
\* exception), or both succeed
TwitterStatuses == {"ok", "no_user", "rate_limited", "error"}

\* lines 652-666: the timeline, newest first, at most max_results ids, after
\* since_id when the request carries one
Timeline(lt, username) ==
    LET since == IF username \in DOMAIN lt THEN lt[username] ELSE 0
        n == IF feed[username] - since < MaxResults
             THEN feed[username] - since ELSE MaxResults
    IN [i \in 1..n |-> feed[username] - i + 1]

\* check_new_tweets_auto taking the last tweet of the answer
CheckNewTweetsAuto_Oldest(lt, username, status) ==
    LET tweets == IF status = "ok" THEN Timeline(lt, username) ELSE <<>>
    IN IF ~TWITTER_BEARER_TOKEN \/ tweets = <<>>
       THEN [tweets |-> <<>>, last_tweets |-> lt]
       ELSE [tweets |-> <<tweets[Len(tweets)]>>,
             last_tweets |-> Put(lt, username, tweets[Len(tweets)])]

\* lines 635-677: check_new_tweets_auto returns the newest tweet of the answer
\* and stores its id, or returns nothing
CheckNewTweetsAuto(lt, username, status) ==
    LET tweets == IF status = "ok" THEN Timeline(lt, username) ELSE <<>>
    IN IF ~TWITTER_BEARER_TOKEN \/ tweets = <<>>
       THEN [tweets |-> <<>>, last_tweets |-> lt]
       ELSE [tweets |-> <<tweets[1]>>, last_tweets |-> Put(lt, username, tweets[1])]

\* lines 2428-2446: the loop over twitter_monitor.accounts
RECURSIVE TwitterLoop(_, _, _)
TwitterLoop(usernames, lt, status) ==
    IF usernames = <<>> THEN [last_tweets |-> lt, sent |-> <<>>]
    ELSE LET username == Head(usernames)
             r == CheckNewTweetsAuto(lt, username, status[username])
             t == TwitterLoop(Tail(usernames), r.last_tweets, status)
         IN [last_tweets |-> t.last_tweets,
             sent |-> (IF r.tweets # <<>>
                       THEN <<[username |-> username, id |-> r.tweets[1]]>>
                       ELSE <<>>) \o t.sent]

\* lines 2422-2449: one invocation of twitter_update, the upstream answering
\* status[username]
\* TwitterSkips without its look at the subscribers
TwitterSkips_NoAudience == ~TWITTER_BEARER_TOKEN \/ accounts = <<>>

\* lines 2425-2426: the early return of twitter_update
TwitterSkips == subscribed_chats = {} \/ ~TWITTER_BEARER_TOKEN \/ accounts = <<>>

TwitterUpdate(status) ==
    /\ t_prior' = last_tweets
    /\ t_fetch0' = t_fetch
    /\ IF TwitterSkips
       THEN /\ t_fetch' = EmptyDict /\ t_sent' = <<>> /\ t_tweets' = EmptyDict
            /\ UNCHANGED last_tweets
       ELSE LET r == TwitterLoop(accounts, last_tweets, status)
            IN /\ last_tweets' = r.last_tweets
               /\ t_fetch' = status
               /\ t_tweets' = [username \in DOMAIN status |->
                                 IF status[username] = "ok"
                                 THEN Timeline(last_tweets, username) ELSE <<>>]
               /\ t_sent' = r.sent
    /\ UNCHANGED <<accounts, feed, whaleVars, whaleObs, mexcVars, mexcObs, envVars, laterVars, laterObs,
                   baseVars, subscribed_chats>>

InitTwitter ==
    /\ InitCommon
    /\ async_task = "none"
    /\ slot_task = "none"
    /\ ETHERSCAN_API_KEY = TRUE
    /\ MEXC_KEYS = TRUE
    /\ TWITTER_BEARER_TOKEN \in BOOLEAN
    /\ diff_domain = "none"

NextTwitter ==
    \/ \E chat_id \in Chats : Start(chat_id)
    \/ \E username \in UsernameInputs : AddAccount(username)
    \/ \E username \in UsernameInputs : RemoveAccount(username)
    \/ \E username \in Users : Post(username)
    \/ \E status \in [Range(accounts) -> TwitterStatuses] : TwitterUpdate(status)

SpecTwitter == InitTwitter /\ [][NextTwitter]_vars

(***************************************************************************)
(* Claims about the post-feed task (SpecTwitter)                           *)
(***************************************************************************)
\* the ids of the tweets of username the last invocation sent
TweetsSentFor(username) == SelectSeq(t_sent, LAMBDA n : n.username = username)

\* C3 (as claimed): for a tracked account without a stored last tweet id, the
\* first successful twitter_update cycle sends no tweet notification, whatever
\* the fetch returned; it only records the newest id as the baseline.
C3_PostFeedBaseline ==
    \A username \in DOMAIN t_fetch :
        (t_fetch[username] = "ok" /\ username \notin DOMAIN t_prior) =>
            TweetsSentFor(username) = <<>>

(***************************************************************************)
(* TetherMonitor.check_tether_mints and tether_update: the mint task       *)
(***************************************************************************)
\* line 841: the first query starts 1000 blocks below the latest block
LookBack == 1000

\* the transfers already on the ledger
Mined == UNION {Range(ledger[b]) : b \in DOMAIN ledger}

\* the upstream: a block is mined; it holds transfers not yet on the ledger,
\* in the order of TxOrder
Mine(txs) ==
    /\ Len(ledger) < MaxBlock
    /\ Range(txs) \cap Mined = {}
    /\ ledger' = Append(ledger, txs)
    /\ UNCHANGED <<ETHERSCAN_API_KEY, last_block_checked, saved_last_block,
                   last_tx_hash, notified, tetherObs, whaleVars, whaleObs, mexcVars,
                   mexcObs, twitterVars, twitterObs, envVars, baseVars,
                   subscribed_chats, clockVars, slotHist, asyncVars>>

\* the transfers of the blocks startblock..endblock, ascending (sort=asc)
RECURSIVE RangeTxs(_, _)
RangeTxs(startblock, endblock) ==
    IF endblock < startblock \/ endblock < 1 THEN <<>>
    ELSE RangeTxs(startblock, endblock - 1)
            \o (IF endblock \in DOMAIN ledger THEN ledger[endblock] ELSE <<>>)

\* how the two requests are answered: eth_blockNumber gives the latest block
\* or fails; tokentx gives status 200 with a payload (the transfers of the
\* range, or an error message with status "0"), another status, or an exception
HeadStatuses == {"ok", "fail"}
TxStatuses == {"ok", "error_payload", "http_error", "exception"}

\* lines 831-887: the mints returned, and the cursor in memory and on file
\* afterwards; start is the startblock of the query (0 when none was made)
CheckTetherMints(head_status, tx_status) ==
    LET latest_block == IF head_status = "ok" THEN Len(ledger) ELSE 0
        start == IF last_block_checked = 0
                 THEN latest_block - LookBack ELSE last_block_checked
        result == IF tx_status = "ok" THEN RangeTxs(start, latest_block) ELSE <<>>
    IN IF ~ETHERSCAN_API_KEY \/ latest_block = 0
       THEN [mints |-> <<>>, last_block_checked |-> last_block_checked,
             saved |-> saved_last_block, start |-> 0, queried |-> FALSE]
       ELSE IF tx_status \in {"http_error", "exception"}
       THEN [mints |-> <<>>, last_block_checked |-> start,
             saved |-> saved_last_block, start |-> start, queried |-> TRUE]
       ELSE [mints |-> SelectSeq(result, LAMBDA tx : tx.mint),
             last_block_checked |-> latest_block,
             saved |-> latest_block, start |-> start, queried |-> TRUE]

\* lines 2401-2418: the hashes sent, and last_tx_hash afterwards
RECURSIVE TetherLoop(_, _)
TetherLoop(mints, last) ==
    IF mints = <<>> THEN [sent |-> <<>>, last_tx_hash |-> last]
    ELSE LET tx_hash == Head(mints).hash IN
         IF tx_hash # "" /\ tx_hash # last
         THEN LET t == TetherLoop(Tail(mints), tx_hash)
              IN [sent |-> <<tx_hash>> \o t.sent, last_tx_hash |-> t.last_tx_hash]
         ELSE TetherLoop(Tail(mints), last)

\* the number of times h occurs in the sequence of hashes
Occurrences(hashes, h) == Cardinality({i \in DOMAIN hashes : hashes[i] = h})

\* lines 2392-2420: one invocation of tether_update
TetherUpdate(head_status, tx_status) ==
    /\ th_saved0' = saved_last_block
    /\ IF subscribed_chats = {} \/ ~ETHERSCAN_API_KEY
       THEN /\ th_fetch' = "none" /\ th_start' = 0 /\ th_sent' = <<>>
            /\ UNCHANGED <<last_block_checked, saved_last_block, last_tx_hash, notified>>
       ELSE LET c == CheckTetherMints(head_status, tx_status)
                r == TetherLoop(c.mints, last_tx_hash)
            IN /\ \A h \in MintHashes :
                     notified[h] + Occurrences(r.sent, h) <= MaxNotified
               /\ last_block_checked' = c.last_block_checked
               /\ saved_last_block' = c.saved
               /\ last_tx_hash' = r.last_tx_hash
               /\ notified' = [h \in MintHashes |->
                                 notified[h] + Occurrences(r.sent, h)]
               /\ th_fetch' = IF c.queried THEN tx_status ELSE "none"
               /\ th_start' = c.start
               /\ th_sent' = r.sent
    /\ UNCHANGED <<ETHERSCAN_API_KEY, ledger, whaleVars, whaleObs, mexcVars, mexcObs,
                   twitterVars, twitterObs, envVars, baseVars, subscribed_chats,
                   clockVars, slotHist, asyncVars>>

\* the contents a block can have
BlockContents ==
    {SelectSeq(TxOrder, LAMBDA tx : tx \in S) : S \in SUBSET Range(TxOrder)}

InitTether ==
    /\ InitCommon
    /\ async_task = "none"
    /\ slot_task = "none"
    /\ ETHERSCAN_API_KEY \in BOOLEAN
    /\ MEXC_KEYS = TRUE
    /\ TWITTER_BEARER_TOKEN = TRUE
    /\ diff_domain = "none"

NextTether ==
    \/ \E chat_id \in Chats : Start(chat_id)
    \/ \E txs \in BlockContents : Mine(txs)
    \/ \E head_status \in HeadStatuses : \E tx_status \in TxStatuses :
          TetherUpdate(head_status, tx_status)

SpecTether == InitTether /\ [][NextTether]_vars

(***************************************************************************)
(* Claims about the mint task (SpecTether)                                 *)
(***************************************************************************)
\* C11 (as claimed): when the mint-transfer query of a cycle fails (an
\* exception, a non-200 response or an error payload), the cursor stays at the
\* start of the queried range, in memory and on file, and nothing is sent, so
\* that the next cycle queries the same range again.
C11_MintFetchFailure ==
    th_fetch \in {"exception", "http_error", "error_payload"} =>
        /\ last_block_checked = th_start
        /\ saved_last_block = th_saved0
        /\ th_sent = <<>>

\* C12 (as claimed): over any sequence of tether_update cycles every mint hash
\* is sent to the subscribers at most once.
C12_NoDuplicateMint == \A h \in MintHashes : notified[h] <= 1

(***************************************************************************)
(* The slot specification: one of the two minute tasks under a wall clock  *)
(* that only moves forward. A tick may run any number of times in a        *)
(* minute, and a minute may pass without one.                              *)
(***************************************************************************)
\* the answers in the slot specification: one position, or a failure
SlotWhaleResponses ==
    {[status |-> "ok", data |-> <<[coin |-> "BTC", szi |-> 1, marginUsed |-> 100]>>],
     [status |-> "error", data |-> <<>>]}

SlotMexcResponses ==
    {[status |-> "ok",
      data |-> <<[symbol |-> "BTC_USDT", positionType |-> 1, holdVol |-> 100]>>],
     [status |-> "http_error", data |-> <<>>]}

\* the slot a time belongs to: the half hour for the whale task, the quarter
\* hour for the MEXC task
SlotOf(now) ==
    IF slot_task = "whale"
    THEN <<now.hour, IF now.minute < 30 THEN 0 ELSE 30>>
    ELSE <<now.hour, 15 * (now.minute \div 15)>>

\* the wall clock moves to the next minute; the history of the slot starts
\* afresh when that minute begins a slot
ClockAdvance ==
    /\ slot_task # "none"
    /\ clock.minute < 59 \/ clock.hour < LastHour
    /\ clock' = IF clock.minute < 59
                THEN [clock EXCEPT !.minute = @ + 1]
                ELSE [hour |-> clock.hour + 1, minute |-> 0]
    /\ missed' = (missed \/ ~active_now)
    /\ active_now' = FALSE
    /\ IF SlotOf(clock') # SlotOf(clock)
       THEN fires' = 0 /\ reports' = 0 /\ ok_ticked' = FALSE
       ELSE UNCHANGED <<fires, reports, ok_ticked>>
    /\ UNCHANGED <<slot_task, asyncVars, tetherVars, tetherObs,
                   whaleVars, whaleObs, mexcVars, mexcObs, twitterVars, twitterObs,
                   envVars, baseVars, subscribed_chats>>

\* what a tick adds to the history of the current slot: fired (the label was
\* taken), reported (a report was sent), fetched (positions came)
SlotRecord(active, in_window, fired, reported, fetched) ==
    /\ active_now' = (active_now \/ active)
    /\ fires' = IF fired THEN fires + 1 ELSE fires
    /\ reports' = IF reported THEN reports + 1 ELSE reports
    /\ ok_ticked' = (ok_ticked \/ (active /\ in_window /\ fetched))
    /\ UNCHANGED missed

\* job_queue.run_repeating(auto_update, interval=60): a tick at the time of the clock
WhaleTick(resp) ==
    /\ slot_task = "whale"
    /\ AutoUpdate(clock, resp)
    /\ SlotRecord(whales # <<>> /\ subscribed_chats # {},
                  InWhaleWindow(clock),
                  last_scheduled_push_time' # last_scheduled_push_time,
                  w_report' # {}, w_diffed' # {})

\* job_queue.run_repeating(mexc_auto_update, interval=60)
MexcTick(resp) ==
    /\ slot_task = "mexc"
    /\ MexcAutoUpdate(clock, resp)
    /\ SlotRecord(subscribed_chats # {} /\ MEXC_KEYS,
                  InMexcWindow(clock),
                  last_mexc_push_time' # last_mexc_push_time,
                  m_report', m_fetch'.data # <<>>)

InitSlot ==
    /\ InitCommon
    /\ async_task = "none"
    /\ slot_task \in {"whale", "mexc"}
    /\ ETHERSCAN_API_KEY = TRUE
    /\ MEXC_KEYS = TRUE
    /\ TWITTER_BEARER_TOKEN = TRUE
    /\ diff_domain = "none"

NextSlot ==
    \/ \E chat_id \in Chats : Start(chat_id)
    \/ slot_task = "whale" /\ AddWhale("0xa1")
    \/ \E resp \in [Range(whales) -> SlotWhaleResponses] : WhaleTick(resp)
    \/ \E resp \in SlotMexcResponses : MexcTick(resp)
    \/ ClockAdvance

SpecSlot == InitSlot /\ [][NextSlot]_vars

(***************************************************************************)
(* Claims about the slot-aligned reports (SpecSlot)                        *)
(***************************************************************************)
\* the clock is in the window of the current slot
InWindow == IF slot_task = "whale" THEN InWhaleWindow(clock) ELSE InMexcWindow(clock)

\* C13: over any sequence of ticks the report of a slot is triggered at most
\* once; and when the task ticks in every minute (whales and subscribers, or
\* subscribers and keys, being there), it has been triggered exactly once when
\* the window of the slot is over: minutes 0..4 and 30..34 for the whale task,
\* 0..2, 15..17, 30..32 and 45..47 for the MEXC task.
C13_SlotDedup ==
    /\ fires <= 1
    /\ (~missed /\ ~InWindow) => fires = 1

C13_Witness ==
    /\ slot_task = "whale"
    /\ ~missed
    /\ clock.minute = 35
    /\ fires = 1

\* C14 (as claimed): when a tick of the task runs in the window of a slot, the
\* whales (or the account) having positions to report, the report of that slot
\* has been triggered and sent, whatever ran and fired before.
C14_SlotAtLeastOnce == ok_ticked => reports >= 1

(***************************************************************************)
(* The tasks step by step. A step is the code between two suspension       *)
(* points (an await on a fetch, a send or a sleep); the handlers run       *)
(* between the steps. One invocation of a task is in progress at a time.   *)
(***************************************************************************)
AsyncChats == {"c1", "c2", "c3"}

\* the pairs of tasks whose invocations a behaviour interleaves
Together ==
    [p \in {"whale+mexc", "whale+tether", "whale+twitter", "mexc+tether",
            "mexc+twitter", "tether+twitter"} |->
        CASE p = "whale+mexc" -> {"whale", "mexc"}
          [] p = "whale+tether" -> {"whale", "tether"}
          [] p = "whale+twitter" -> {"whale", "twitter"}
          [] p = "mexc+tether" -> {"mexc", "tether"}
          [] p = "mexc+twitter" -> {"mexc", "twitter"}
          [] p = "tether+twitter" -> {"tether", "twitter"}]

\* the behaviour runs the task: alone, or together with another one
Runs(task) ==
    \/ async_task = task
    \/ async_task \in DOMAIN Together /\ task \in Together[async_task]

\* status 200 with one position, with two, with an entry that lacks the
\* position key, or a failure
AsyncWhaleResponses ==
    {[status |-> "ok", data |-> <<[coin |-> "BTC", szi |-> 1, marginUsed |-> 100]>>],
     [status |-> "ok", data |-> <<[coin |-> "BTC", szi |-> 1, marginUsed |-> 100],
                                  [coin |-> "ETH", szi |-> 1, marginUsed |-> 100]>>],
     [status |-> "malformed", data |-> <<>>],
     [status |-> "error", data |-> <<>>]}

AsyncMexcResponses ==
    {[status |-> "ok",
      data |-> <<[symbol |-> "BTC_USDT", positionType |-> 1, holdVol |-> 100]>>],
     [status |-> "ok",
      data |-> <<[symbol |-> "BTC_USDT", positionType |-> 2, holdVol |-> 100]>>],
     [status |-> "http_error", data |-> <<>>]}

\* send_message returns or raises
SendOutcomes == {"ok", "raise"}

\* a task without the except clause around its body
OuterExcept_Missing == "escaped"

\* lines 2276-2279, 2387-2390: the except clause around the body of a task
OuterExcept == "caught"

\* lines 2248-2249, 2357-2358: the except clause around one send
InnerExcept == "continue"

\* an exception reaches the outer try of the task
Raise(t, exc) == [t EXCEPT !.pc = "idle", !.ended = OuterExcept, !.exc = exc]

\* the task returns
Return(t) == [t EXCEPT !.pc = "idle", !.ended = "returned"]

\* `for chat_id in tracker.subscribed_chats` asks the set iterator for the next
\* chat: it raises when the set changed size, otherwise it yields a chat not
\* yet visited (pick, the order of a set is not fixed) and the send starts, or
\* it is exhausted and the sleep after the loop starts
FanStep(t, pick) ==
    IF Cardinality(subscribed_chats) # t.iter_n THEN Raise(t, "SetChangedSize")
    ELSE IF t.left = {} THEN [t EXCEPT !.pc = "sleep"]
    ELSE IF pick \notin t.left THEN [t EXCEPT !.pc = "invalid"]
    ELSE [t EXCEPT !.pc = "send", !.chat = pick, !.left = @ \ {pick}]

\* the loop over the subscribers begins, for a notification or for the report
FanStart(t, phase, pick) ==
    FanStep([t EXCEPT !.phase = phase, !.left = subscribed_chats,
                      !.iter_n = Cardinality(subscribed_chats),
                      !.disp0 = subscribed_chats, !.log = <<>>], pick)

\* a send came back: the except clause around it, then the next chat
AfterSend(t, outcome, pick) ==
    LET t1 == [t EXCEPT !.log = Append(@, [ev |-> "send", chat |-> t.chat,
                                           outcome |-> outcome])]
    IN IF outcome = "raise" /\ InnerExcept # "continue"
       THEN Raise(t1, "SendError")
       ELSE FanStep(t1, pick)

\* what a dict iterator can do when the dict was modified under it and has its
\* old size again: where the iterator stands among the entries then depends on
\* the layout of the dict, so it may raise, be exhausted, or yield any key
IterOutcomes == {"raise", "stop", "0xa1", "0xa2"}

\* line 2221: `for address, name in tracker.whales.items()` asks for the next
\* address; the dict iterator raises when the dict changed size, and does one
\* of IterOutcomes (it) when the dict changed and has its old size
WhaleNextAddress(t, it) ==
    IF Len(whales) # t.dict_n THEN Raise(t, "DictChangedSize")
    ELSE IF whales_changed
    THEN IF it = "raise" THEN Raise(t, "DictKeysChanged")
         ELSE IF it = "stop" THEN Return(t)
         ELSE IF it \in Range(whales)
         THEN [t EXCEPT !.pc = "fetch", !.addr = it,
                        !.todo = SelectSeq(@, LAMBDA a : a # it)]
         ELSE [t EXCEPT !.pc = "invalid"]
    ELSE IF t.todo = <<>> THEN Return(t)
    ELSE [t EXCEPT !.pc = "fetch", !.addr = Head(t.todo), !.todo = Tail(t.todo)]

\* lines 2254-2274: the report of the address, or the next address
WhaleAfterNotes(t, pick, it) ==
    IF t.should_push THEN FanStart(t, "report", pick) ELSE WhaleNextAddress(t, it)

\* lines 2235-2251: the next notification of the address
WhaleNextNote(t, pick, it) ==
    IF t.notes = <<>> THEN WhaleAfterNotes(t, pick, it) ELSE FanStart(t, "note", pick)

\* a step of auto_update leaves the other tasks and the registry alone; the
\* iterator of its loop is gone when the invocation is over
WhaleStepFrame ==
    /\ whales_changed' = (whales_changed /\ w_task'.pc # "idle")
    /\ w_call' = NoCall
    /\ UNCHANGED <<whales, async_task, invocations, m_task, th_task, tw_task, w_whales,
                   w_prior, w_fetch, w_diffed, w_again, w_sent, w_report, w_post,
                   mexcVars, mexcObs, twitterVars, twitterObs, cfgVars, baseVars,
                   subscribed_chats, tetherVars, tetherObs, clockVars, slotHist>>

\* lines 2181-2224: from the tick to the first fetch
WhaleBegin(now) ==
    /\ Runs("whale")
    /\ w_task.pc = "idle"
    /\ IF whales = <<>> \/ subscribed_chats = {}
       THEN /\ w_task' = Return(IdleTask)
            /\ UNCHANGED last_scheduled_push_time
       ELSE LET should_push == /\ InWhaleWindow(now)
                               /\ last_scheduled_push_time # WhaleTimeMark(now)
            IN /\ last_scheduled_push_time' =
                      IF should_push THEN WhaleTimeMark(now) ELSE last_scheduled_push_time
               /\ w_task' = WhaleNextAddress([IdleTask EXCEPT
                                                !.should_push = should_push,
                                                !.todo = whales,
                                                !.dict_n = Len(whales)], "stop")
    /\ UNCHANGED last_positions
    /\ WhaleStepFrame

\* lines 2224-2241: the fetch came back; the diff and its commit, then the
\* first send, the next fetch or the end
WhaleFetched(resp, pick, it) ==
    LET positions == WhaleFetch(resp)
        r == WhaleDetect(last_positions, w_task.addr, positions)
    IN
    /\ w_task.pc = "fetch"
    /\ IF resp.status = "malformed"
       THEN /\ w_task' = Raise(w_task, "KeyError")
            /\ UNCHANGED last_positions
       ELSE IF positions = <<>>
       THEN /\ w_task' = WhaleNextAddress(w_task, it)
            /\ UNCHANGED last_positions
       ELSE /\ last_positions' = r.last_positions
            /\ w_task' = WhaleNextNote([w_task EXCEPT
                                          !.positions = positions,
                                          !.notes = r.notifications,
                                          !.new_pos_dict = ToPosDict(positions),
                                          !.committed = TRUE], pick, it)
    /\ w_task'.pc # "invalid"
    /\ UNCHANGED last_scheduled_push_time
    /\ WhaleStepFrame

\* lines 2241-2251, 2264-2274: a send came back
WhaleSent(outcome, pick) ==
    /\ w_task.pc = "send"
    /\ w_task' = AfterSend(w_task, outcome, pick)
    /\ w_task'.pc # "invalid"
    /\ UNCHANGED <<last_positions, last_scheduled_push_time>>
    /\ WhaleStepFrame

\* lines 2251, 2274: the sleep after the loop over the subscribers is over
WhaleSlept(pick, it) ==
    /\ w_task.pc = "sleep"
    /\ w_task' = IF w_task.phase = "note"
                 THEN WhaleNextNote([w_task EXCEPT !.notes = Tail(@)], pick, it)
                 ELSE WhaleNextAddress(w_task, it)
    /\ w_task'.pc # "invalid"
    /\ UNCHANGED <<last_positions, last_scheduled_push_time>>
    /\ WhaleStepFrame

\* lines 2365-2385: past the commit of line 2362, the report or the end
MexcAfterNotes(t, pick) ==
    LET c == [t EXCEPT !.committed = TRUE] IN
    IF c.should_push /\ c.positions # <<>>
    THEN FanStart(c, "report", pick)
    ELSE Return(c)

\* lines 2341-2360: the next notification
MexcNextNote(t, pick) ==
    IF t.notes = <<>> THEN MexcAfterNotes(t, pick) ELSE FanStart(t, "note", pick)

\* line 2362: last_mexc_positions = new_pos_dict, the moment the step passes it
MexcCommit ==
    last_mexc_positions' = IF m_task'.committed /\ ~m_task.committed
                           THEN m_task'.new_pos_dict
                           ELSE last_mexc_positions

MexcStepFrame ==
    UNCHANGED <<whaleVars, whaleObs, async_task, invocations, w_task, th_task, tw_task, mexcObs, twitterVars,
                twitterObs, envVars, baseVars, subscribed_chats, tetherVars,
                tetherObs, clockVars, slotHist>>

\* MexcBegin keeping its slot label in the global of the whale task
MexcBegin_SharedLabel(now) ==
    /\ Runs("mexc")
    /\ m_task.pc = "idle"
    /\ IF subscribed_chats = {} \/ ~MEXC_KEYS
       THEN /\ m_task' = Return(IdleTask)
            /\ UNCHANGED last_scheduled_push_time
       ELSE LET should_push == /\ InMexcWindow(now)
                               /\ last_scheduled_push_time # MexcTimeMark(now)
            IN /\ last_scheduled_push_time' =
                      IF should_push THEN MexcTimeMark(now) ELSE last_scheduled_push_time
               /\ m_task' = [IdleTask EXCEPT !.pc = "fetch",
                                             !.should_push = should_push]
    /\ UNCHANGED <<whales, last_positions, mexcVars, whaleObs, async_task, invocations, w_task,
                   th_task, tw_task, mexcObs, twitterVars, twitterObs, envVars,
                   baseVars, subscribed_chats, tetherVars, tetherObs, clockVars,
                   slotHist>>

\* lines 2285-2333: from the tick to the fetch
MexcBegin(now) ==
    /\ Runs("mexc")
    /\ m_task.pc = "idle"
    /\ IF subscribed_chats = {} \/ ~MEXC_KEYS
       THEN /\ m_task' = Return(IdleTask)
            /\ UNCHANGED last_mexc_push_time
       ELSE LET should_push == /\ InMexcWindow(now)
                               /\ last_mexc_push_time # MexcTimeMark(now)
            IN /\ last_mexc_push_time' =
                      IF should_push THEN MexcTimeMark(now) ELSE last_mexc_push_time
               /\ m_task' = [IdleTask EXCEPT !.pc = "fetch",
                                             !.should_push = should_push]
    /\ UNCHANGED <<last_mexc_positions, trades_history>>
    /\ MexcStepFrame

\* lines 2333-2344: the fetch came back; the diff, which records the trades,
\* then the first send, or the commit and the report or the end
MexcFetched(resp, pick) ==
    LET positions == MexcFetch(MEXC_KEYS, resp)
        r == MexcDetect(last_mexc_positions, positions, trades_history)
    IN
    /\ m_task.pc = "fetch"
    /\ IF positions = <<>> /\ last_mexc_positions = EmptyDict
       THEN /\ m_task' = Return(m_task)
            /\ UNCHANGED <<last_mexc_positions, trades_history>>
       ELSE /\ Len(r.trades_history) <= MaxTrades
            /\ trades_history' = r.trades_history
            /\ m_task' = MexcNextNote([m_task EXCEPT
                                         !.positions = positions,
                                         !.notes = r.notifications,
                                         !.new_pos_dict = r.new_pos_dict], pick)
            /\ MexcCommit
    /\ m_task'.pc # "invalid"
    /\ UNCHANGED last_mexc_push_time
    /\ MexcStepFrame

\* lines 2344-2360, 2375-2385: a send came back
MexcSent(outcome, pick) ==
    /\ m_task.pc = "send"
    /\ m_task' = AfterSend(m_task, outcome, pick)
    /\ m_task'.pc # "invalid"
    /\ UNCHANGED mexcVars
    /\ MexcStepFrame

\* lines 2360-2365, 2385: the sleep after the loop over the subscribers is over
MexcSlept(pick) ==
    /\ m_task.pc = "sleep"
    /\ m_task' = IF m_task.phase = "note"
                 THEN MexcNextNote([m_task EXCEPT !.notes = Tail(@)], pick)
                 ELSE Return(m_task)
    /\ m_task'.pc # "invalid"
    /\ MexcCommit
    /\ UNCHANGED <<last_mexc_push_time, trades_history>>
    /\ MexcStepFrame

(***************************************************************************)
(* tether_update step by step                                              *)
(***************************************************************************)
\* lines 2401-2407: the next mint whose hash is not last_tx_hash, if any
RECURSIVE TetherNextMint(_, _)
TetherNextMint(t, pick) ==
    IF t.notes = <<>> THEN Return(t)
    ELSE IF Head(t.notes).hash # "" /\ Head(t.notes).hash # last_tx_hash
    THEN FanStart(t, "note", pick)
    ELSE TetherNextMint([t EXCEPT !.notes = Tail(@)], pick)

\* the loop over the subscribers began for a mint: one more notification of it
TetherCount ==
    IF th_task'.pc = "send" /\ th_task'.log = <<>>
    THEN /\ notified[Head(th_task'.notes).hash] < MaxNotified
         /\ notified' = [notified EXCEPT ![Head(th_task'.notes).hash] = @ + 1]
    ELSE UNCHANGED notified

TetherStepFrame ==
    UNCHANGED <<ETHERSCAN_API_KEY, ledger, tetherObs, whaleVars, whaleObs, mexcVars,
                mexcObs, twitterVars, twitterObs, envVars, baseVars, subscribed_chats,
                clockVars, slotHist, async_task, invocations, w_task, m_task, tw_task>>

\* lines 2394-2398: from the tick to the fetch
TetherBegin ==
    /\ Runs("tether")
    /\ th_task.pc = "idle"
    /\ th_task' = IF subscribed_chats = {} \/ ~ETHERSCAN_API_KEY
                  THEN Return(IdleTask)
                  ELSE [IdleTask EXCEPT !.pc = "fetch"]
    /\ UNCHANGED <<last_block_checked, saved_last_block, last_tx_hash, notified>>
    /\ TetherStepFrame

\* lines 2398-2409: check_tether_mints came back and moved the cursor
TetherFetched(head_status, tx_status, pick) ==
    LET c == CheckTetherMints(head_status, tx_status) IN
    /\ th_task.pc = "fetch"
    /\ last_block_checked' = c.last_block_checked
    /\ saved_last_block' = c.saved
    /\ th_task' = TetherNextMint([th_task EXCEPT !.notes = c.mints], pick)
    /\ th_task'.pc # "invalid"
    /\ TetherCount
    /\ UNCHANGED last_tx_hash
    /\ TetherStepFrame

\* lines 2408-2418: a send came back; after the last one last_tx_hash is set
TetherSent(outcome, pick) ==
    /\ th_task.pc = "send"
    /\ th_task' = AfterSend(th_task, outcome, pick)
    /\ th_task'.pc # "invalid"
    /\ last_tx_hash' = IF th_task'.pc = "sleep"
                       THEN Head(th_task.notes).hash ELSE last_tx_hash
    /\ UNCHANGED <<last_block_checked, saved_last_block, notified>>
    /\ TetherStepFrame

\* line 2418: the sleep after the loop over the subscribers is over
TetherSlept(pick) ==
    /\ th_task.pc = "sleep"
    /\ th_task' = TetherNextMint([th_task EXCEPT !.notes = Tail(@)], pick)
    /\ th_task'.pc # "invalid"
    /\ TetherCount
    /\ UNCHANGED <<last_block_checked, saved_last_block, last_tx_hash>>
    /\ TetherStepFrame

(***************************************************************************)
(* twitter_update step by step                                             *)
(***************************************************************************)
\* line 2428: `for username in twitter_monitor.accounts.keys()` asks for the
\* next account; the dict iterator raises when the dict changed size
TwitterNextAccount(t) ==
    IF Len(accounts) # t.dict_n THEN Raise(t, "DictChangedSize")
    ELSE IF t.todo = <<>> THEN Return(t)
    ELSE [t EXCEPT !.pc = "fetch", !.addr = Head(t.todo), !.todo = Tail(t.todo)]

TwitterStepFrame ==
    UNCHANGED <<accounts, feed, twitterObs, whaleVars, whaleObs, mexcVars, mexcObs,
                envVars, baseVars, subscribed_chats, tetherVars, tetherObs, clockVars,
                slotHist, async_task, invocations, w_task, m_task, th_task>>

\* lines 2424-2429: from the tick to the first fetch
TwitterBegin ==
    /\ Runs("twitter")
    /\ tw_task.pc = "idle"
    /\ tw_task' = IF TwitterSkips
                  THEN Return(IdleTask)
                  ELSE TwitterNextAccount([IdleTask EXCEPT !.todo = accounts,
                                                           !.dict_n = Len(accounts)])
    /\ UNCHANGED last_tweets
    /\ TwitterStepFrame

\* lines 2429-2434: check_new_tweets_auto came back and stored the newest id
TwitterFetched(status) ==
    LET r == CheckNewTweetsAuto(last_tweets, tw_task.addr, status) IN
    /\ tw_task.pc = "fetch"
    /\ last_tweets' = r.last_tweets
    /\ tw_task' = IF r.tweets = <<>>
                  THEN TwitterNextAccount(tw_task)
                  ELSE [tw_task EXCEPT !.pc = "render", !.notes = r.tweets]
    /\ TwitterStepFrame

\* lines 2434-2438: format_tweet_notification came back
TwitterRendered(pick) ==
    /\ tw_task.pc = "render"
    /\ tw_task' = FanStart(tw_task, "note", pick)
    /\ tw_task'.pc # "invalid"
    /\ UNCHANGED last_tweets
    /\ TwitterStepFrame

\* lines 2437-2446: a send came back
TwitterSent(outcome, pick) ==
    /\ tw_task.pc = "send"
    /\ tw_task' = AfterSend(tw_task, outcome, pick)
    /\ tw_task'.pc # "invalid"
    /\ UNCHANGED last_tweets
    /\ TwitterStepFrame

\* line 2446: the sleep after the loop over the subscribers is over
TwitterSlept ==
    /\ tw_task.pc = "sleep"
    /\ tw_task' = TwitterNextAccount(tw_task)
    /\ UNCHANGED last_tweets
    /\ TwitterStepFrame


InitAsync ==
    /\ InitCommon
    /\ async_task \in {"whale", "mexc", "tether", "twitter"}
    /\ slot_task = "none"
    /\ ETHERSCAN_API_KEY = TRUE
    /\ MEXC_KEYS = TRUE
    /\ TWITTER_BEARER_TOKEN = TRUE
    /\ diff_domain = "none"

NextAsync ==
    \/ \E chat_id \in AsyncChats : Start(chat_id)
    \/ \E address \in {"0xa1", "0xa2"} : async_task = "whale" /\ AddWhale(address)
    \/ \E now \in Times : WhaleBegin(now)
    \/ \E resp \in AsyncWhaleResponses : \E pick \in AsyncChats : \E it \in IterOutcomes :
          WhaleFetched(resp, pick, it)
    \/ \E outcome \in SendOutcomes : \E pick \in AsyncChats : WhaleSent(outcome, pick)
    \/ \E pick \in AsyncChats : \E it \in IterOutcomes : WhaleSlept(pick, it)
    \/ \E now \in Times : MexcBegin(now)
    \/ \E resp \in AsyncMexcResponses : \E pick \in AsyncChats : MexcFetched(resp, pick)
    \/ \E outcome \in SendOutcomes : \E pick \in AsyncChats : MexcSent(outcome, pick)
    \/ \E pick \in AsyncChats : MexcSlept(pick)
    \/ \E txs \in BlockContents : async_task = "tether" /\ Mine(txs)
    \/ TetherBegin
    \/ \E head_status \in HeadStatuses : \E tx_status \in TxStatuses :
          \E pick \in AsyncChats : TetherFetched(head_status, tx_status, pick)
    \/ \E outcome \in SendOutcomes : \E pick \in AsyncChats : TetherSent(outcome, pick)
    \/ \E pick \in AsyncChats : TetherSlept(pick)
    \/ \E username \in Users : async_task = "twitter" /\ AddAccount(username)
    \/ \E username \in Users : async_task = "twitter" /\ Post(username)
    \/ TwitterBegin
    \/ \E status \in TwitterStatuses : TwitterFetched(status)
    \/ \E pick \in AsyncChats : TwitterRendered(pick)
    \/ \E outcome \in SendOutcomes : \E pick \in AsyncChats : TwitterSent(outcome, pick)
    \/ TwitterSlept

SpecAsync == InitAsync /\ [][NextAsync]_vars


(***************************************************************************)
(* The registries under a running cycle: the handlers that add and remove  *)
(* tracked whales and accounts run while auto_update or twitter_update is  *)
(* suspended                                                               *)
(***************************************************************************)
InitRegistry ==
    /\ InitCommon
    /\ async_task \in {"whale", "twitter"}
    /\ slot_task = "none"
    /\ ETHERSCAN_API_KEY = TRUE
    /\ MEXC_KEYS = TRUE
    /\ TWITTER_BEARER_TOKEN = TRUE
    /\ diff_domain = "none"

NextRegistry ==
    \/ \E chat_id \in Chats : Start(chat_id)
    \/ \E address \in {"0xa1", "0xa2"} : async_task = "whale" /\ AddWhale(address)
    \/ \E address \in {"0xa1", "0xa2"} : async_task = "whale" /\ RemoveWhale(address)
    \/ \E now \in Times : WhaleBegin(now)
    \/ \E resp \in AsyncWhaleResponses : \E pick \in Chats : \E it \in IterOutcomes :
          WhaleFetched(resp, pick, it)
    \/ \E outcome \in SendOutcomes : \E pick \in Chats : WhaleSent(outcome, pick)
    \/ \E pick \in Chats : \E it \in IterOutcomes : WhaleSlept(pick, it)
    \/ \E username \in Users : async_task = "twitter" /\ AddAccount(username)
    \/ \E username \in Users : async_task = "twitter" /\ Post(username)
    \/ TwitterBegin
    \/ \E status \in TwitterStatuses : TwitterFetched(status)
    \/ \E pick \in Chats : TwitterRendered(pick)
    \/ \E outcome \in SendOutcomes : \E pick \in Chats : TwitterSent(outcome, pick)
    \/ TwitterSlept

SpecRegistry == InitRegistry /\ [][NextRegistry]_vars

(***************************************************************************)
(* Claims about the registries under a running cycle (SpecRegistry)        *)
(***************************************************************************)
\* C29: in every reachable state, under any interleaving of add_whale,
\* remove_whale and the steps of auto_update, every address that has a stored
\* snapshot in last_positions is a currently tracked whale
C29_SnapshotFollowsRegistry == DOMAIN last_positions \subseteq Range(whales)

\* the entities registered when the invocation began that it did not poll
Unpolled(t) == Range(t.todo)

\* C30: when a handler adds or removes a tracked whale or a tracked account
\* while a cycle of that domain is suspended, the cycle still polls every
\* entity that was registered at its start and remains registered: a cycle
\* that no fetch aborted ends with no such entity left unpolled
C30_RegistryChangeKeepsCycle ==
    /\ (w_task.pc = "idle" /\ w_task.exc # "KeyError")
          => Unpolled(w_task) \cap Range(whales) = {}
    /\ tw_task.pc = "idle" => Unpolled(tw_task) \cap Range(accounts) = {}

(***************************************************************************)
(* Claims about the suspension points (SpecAsync)                          *)
(***************************************************************************)
\* the four task invocations
TaskStates == {w_task, m_task, th_task, tw_task}

\* during a dispatch: a send or the sleep after the sends is awaited
Dispatching(t) == t.pc \in {"send", "sleep"}

\* how often the current dispatch attempted a send to chat c
Attempts(t, c) == Cardinality({i \in DOMAIN t.log : t.log[i].chat = c})

\* C16 (as claimed): while a notification or report derived from a diff is
\* being dispatched, the snapshot that diff produced is already the stored
\* snapshot (whale: of the address; MEXC: last_mexc_positions).
C16_AtomicReadDiffWrite ==
    /\ Dispatching(w_task) =>
          /\ w_task.addr \in DOMAIN last_positions
          /\ last_positions[w_task.addr] = w_task.new_pos_dict
    /\ Dispatching(m_task) => last_mexc_positions = m_task.new_pos_dict

\* C17 (as claimed): when a send of a dispatch raised, then once the dispatch
\* is no longer sending, every chat subscribed at its start was attempted
\* exactly once and the invocation was not ended by an exception.
C17_DispatchIsolation ==
    \A t \in TaskStates :
        ((\E i \in DOMAIN t.log : t.log[i].outcome = "raise") /\ t.pc # "send") =>
            /\ \A c \in t.disp0 : Attempts(t, c) = 1
            /\ t.exc = "none"

\* C18 (as claimed): a subscription added while a dispatch is suspended does
\* not disturb the dispatch: the invocation is not ended by it.
C18_SubscriberSnapshot == \A t \in TaskStates : t.exc # "SetChangedSize"

\* C19 (as claimed): within one dispatch no two sends follow each other
\* without a delay between them.
C19_Pacing ==
    \A t \in TaskStates :
        \A i \in DOMAIN t.log :
            (i + 1) \in DOMAIN t.log =>
                ~(t.log[i].ev = "send" /\ t.log[i + 1].ev = "send")

\* C20: an exception raised inside an invocation is caught by the invocation:
\* it never escapes, and the task is ready for its next tick.
C20_ErrorBoundary ==
    \A t \in TaskStates :
        /\ t.ended # "escaped"
        /\ t.exc # "none" => (t.pc = "idle" /\ t.ended = "caught")

C20_Witness ==
    /\ w_task.ended = "caught"
    /\ w_task.exc = "KeyError"
    /\ DOMAIN last_positions # {}

(***************************************************************************)
(* Further claims about the detectors (SpecDiff)                           *)
(***************************************************************************)
\* C21 (as claimed): a call of a detector modifies no stored state: the whale
\* snapshot store after the call (w_post) is the store before it (w_prior),
\* and the MEXC trade history is as long as before the call (m_trades0).
C21_DiffPure ==
    /\ w_diffed # {} => w_post = w_prior
    /\ m_ran = "diffed" => Len(trades_history) = m_trades0

\* where a kind of notification stands in the list a detector returns
KindRank(kind) == IF kind = "open" THEN 1 ELSE IF kind = "close" THEN 2 ELSE 3

\* C31: the notifications of one detect_position_changes call hold at most one
\* notification per sub-key (so open, close, add and reduce exclude each other
\* for a sub-key), and list every open first, then every close, then the adds
\* and reduces (whale and MEXC).
C31_OneEventPerSubKey ==
    /\ \A i, j \in DOMAIN w_sent :
          (i < j /\ w_sent[i].address = w_sent[j].address) =>
              /\ w_sent[i].key # w_sent[j].key
              /\ KindRank(w_sent[i].kind) <= KindRank(w_sent[j].kind)
    /\ \A i, j \in DOMAIN m_sent :
          i < j => /\ m_sent[i].key # m_sent[j].key
                   /\ KindRank(m_sent[i].kind) <= KindRank(m_sent[j].kind)

\* C35: after a MEXC detect_position_changes call the trade history is the
\* history before the call followed by one record per notification the call
\* returned, in the same order, each with the action (open, close, add,
\* reduce) and the symbol of its notification; no step reorders or shortens
\* the trade history.
C35_TradesMirrorEvents ==
    /\ [](m_ran = "diffed" =>
            /\ Len(trades_history) = m_trades0 + Len(m_sent)
            /\ \A i \in DOMAIN m_sent :
                  /\ trades_history[m_trades0 + i].action = m_sent[i].kind
                  /\ trades_history[m_trades0 + i].symbol = SymbolOfKey(m_sent[i].key))
    /\ [][/\ Len(trades_history') >= Len(trades_history)
          /\ SubSeq(trades_history', 1, Len(trades_history)) = trades_history]_vars

\* a call that found one change appended its record behind an earlier record
\* of another action
C35_Witness ==
    /\ m_ran = "diffed"
    /\ m_trades0 = 1
    /\ Len(m_sent) = 1
    /\ Len(trades_history) = 2
    /\ trades_history[1].action = "open"
    /\ trades_history[2].action = "reduce"

\* the fetched entry of a coin, as the whale diff read it
FetchedEntry(a, c) ==
    LET data == w_fetch[a].data
    IN data[CHOOSE i \in DOMAIN data : data[i].coin = c]

\* the events of a sub-key in both snapshots, from the two margins alone
KindsByMargin(old_margin, new_margin) ==
    IF old_margin > 0 /\ Abs(new_margin - old_margin) * 10 > old_margin
    THEN {IF new_margin > old_margin THEN "add" ELSE "reduce"}
    ELSE {}

\* C32: for a whale sub-key in both snapshots the emitted event depends only on
\* the prior and the new margin; when the signed size changed sign while the
\* margin changed by less than the threshold (a tenth of the prior margin),
\* the diff emits no event for the sub-key and commits the new signed size.
C32_DirectionFlipInvisible ==
    \A a \in w_diffed : a \in DOMAIN w_prior =>
        \A c \in (DOMAIN w_prior[a]) \cap (DOMAIN w_post[a]) :
            /\ WhaleKindsOf(a, c) =
                  KindsByMargin(w_prior[a][c].margin, FetchedEntry(a, c).marginUsed)
            /\ (/\ w_prior[a][c].szi * FetchedEntry(a, c).szi < 0
                /\ Abs(FetchedEntry(a, c).marginUsed - w_prior[a][c].margin) * 10
                       < w_prior[a][c].margin)
                   => /\ WhaleKindsOf(a, c) = {}
                      /\ w_post[a][c].szi = FetchedEntry(a, c).szi

\* a long BTC position of margin 109 came back as a short one of margin 100
C32_Witness ==
    /\ DiffAddr \in w_diffed
    /\ DiffAddr \in DOMAIN w_prior
    /\ "BTC" \in DOMAIN w_prior[DiffAddr]
    /\ w_prior[DiffAddr]["BTC"] = [szi |-> 1, margin |-> 109]
    /\ "BTC" \in DOMAIN w_post[DiffAddr]
    /\ w_post[DiffAddr]["BTC"] = [szi |-> -1, margin |-> 100]

\* a whale diff returned a close and, after it, an add or a reduce
C31_Witness ==
    /\ Len(w_sent) = 2
    /\ w_sent[1].kind = "close"
    /\ w_sent[2].kind \in {"add", "reduce"}

(***************************************************************************)
(* Two tasks interleaved: the steps of their invocations alternate freely  *)
(* at the suspension points.                                               *)
(***************************************************************************)
InitInterleave ==
    /\ InitCommon
    /\ async_task \in DOMAIN Together
    /\ slot_task = "none"
    /\ ETHERSCAN_API_KEY = TRUE
    /\ MEXC_KEYS = TRUE
    /\ TWITTER_BEARER_TOKEN = TRUE
    /\ diff_domain = "none"

NextInterleave ==
    \/ \E chat_id \in Chats : Start(chat_id)
    \/ Runs("whale") /\ AddWhale("0xa1")
    \/ Runs("twitter") /\ AddAccount("alice")
    \/ Runs("twitter") /\ Post("alice")
    \/ Runs("tether") /\ Mine(<<TxOrder[1]>>)
    \/ \E now \in Times : WhaleBegin(now)
    \/ \E resp \in AsyncWhaleResponses : \E pick \in Chats : \E it \in IterOutcomes :
          WhaleFetched(resp, pick, it)
    \/ \E outcome \in SendOutcomes : \E pick \in Chats : WhaleSent(outcome, pick)
    \/ \E pick \in Chats : \E it \in IterOutcomes : WhaleSlept(pick, it)
    \/ \E now \in Times : MexcBegin(now)
    \/ \E resp \in AsyncMexcResponses : \E pick \in Chats : MexcFetched(resp, pick)
    \/ \E outcome \in SendOutcomes : \E pick \in Chats : MexcSent(outcome, pick)
    \/ \E pick \in Chats : MexcSlept(pick)
    \/ TetherBegin
    \/ \E head_status \in HeadStatuses : \E tx_status \in TxStatuses :
          \E pick \in Chats : TetherFetched(head_status, tx_status, pick)
    \/ \E outcome \in SendOutcomes : \E pick \in Chats : TetherSent(outcome, pick)
    \/ \E pick \in Chats : TetherSlept(pick)
    \/ TwitterBegin
    \/ \E status \in TwitterStatuses : TwitterFetched(status)
    \/ \E pick \in Chats : TwitterRendered(pick)
    \/ \E outcome \in SendOutcomes : \E pick \in Chats : TwitterSent(outcome, pick)
    \/ TwitterSlept

SpecInterleave == InitInterleave /\ [][NextInterleave]_vars

(***************************************************************************)
(* Claims about interleaved tasks (SpecInterleave)                         *)
(***************************************************************************)
\* the state each task writes
WhaleWritten == <<last_positions, last_scheduled_push_time>>
MexcWritten == <<last_mexc_positions, last_mexc_push_time, trades_history>>
TetherWritten == <<last_block_checked, saved_last_block, last_tx_hash>>
TwitterWritten == <<last_tweets>>

\* C22: a step of an invocation of one periodic task leaves the state written
\* by the other three tasks unchanged, and leaves the subscriber set and the
\* registries all of them read unchanged, at every suspension point and under
\* every interleaving of two tasks.
C22_DisjointCadences ==
    [][/\ w_task' # w_task => UNCHANGED <<MexcWritten, TetherWritten, TwitterWritten>>
       /\ m_task' # m_task => UNCHANGED <<WhaleWritten, TetherWritten, TwitterWritten>>
       /\ th_task' # th_task => UNCHANGED <<WhaleWritten, MexcWritten, TwitterWritten>>
       /\ tw_task' # tw_task => UNCHANGED <<WhaleWritten, MexcWritten, TetherWritten>>
       /\ <<w_task, m_task, th_task, tw_task>>' # <<w_task, m_task, th_task, tw_task>>
             => UNCHANGED <<subscribed_chats, whales, accounts>>]_vars

C22_Witness ==
    /\ async_task = "whale+mexc"
    /\ w_task.pc = "send"
    /\ m_task.pc = "send"
    /\ last_positions # EmptyDict
    /\ trades_history # <<>>
    /\ last_scheduled_push_time # NoLabel
    /\ last_mexc_push_time # NoLabel

(***************************************************************************)
(* Further claims about the post-feed task (SpecTwitter)                   *)
(***************************************************************************)
\* the bearer token was rejected with status 429 in the invocation before the
\* last one
RejectedBefore == \E username \in DOMAIN t_fetch0 : t_fetch0[username] = "rate_limited"

\* C23 (as claimed): a credential rejected with a rate-limit response is marked
\* failed and the pool moves on: the invocation that follows sends no request
\* with that credential, which is the only one the program has.
C23_RateLimitFailover == RejectedBefore => t_fetch = EmptyDict

(***************************************************************************)
(* The credential pool of one upstream capability: GetUsable, MarkFailed,  *)
(* Advance and MaybeReset.                                                 *)
(***************************************************************************)
AllFailed(failed) == \A i \in DOMAIN failed : failed[i]

\* the position k places after index, wrapping round
PoolAt(index, k) == ((index - 1 + k) % PoolSize) + 1

\* the scan of GetUsable from the k-th place after index on: the first
\* position whose flag is false, 0 when the full cycle found none
RECURSIVE PoolScan(_, _, _)
PoolScan(failed, index, k) ==
    IF k >= PoolSize THEN 0
    ELSE IF ~failed[PoolAt(index, k)] THEN PoolAt(index, k)
    ELSE PoolScan(failed, index, k + 1)

\* GetUsable stopping at the end of the sequence instead of wrapping round
GetUsable_NoWrap(failed, index) ==
    IF \E i \in index..PoolSize : ~failed[i]
    THEN CHOOSE i \in index..PoolSize :
            ~failed[i] /\ \A j \in index..(i - 1) : failed[j]
    ELSE 0

\* GetUsable(pool): the position of the credential returned, 0 for absent
GetUsable(failed, index) == PoolScan(failed, index, 0)

\* MaybeReset forgiving only after more than the period
ResetDue_Late(now, last) == now - last > ResetPeriod

\* MaybeReset(pool, now) acts when now - lastResetAt >= 24h
ResetDue(now, last) == now - last >= ResetPeriod

PoolFrame ==
    UNCHANGED <<whaleVars, whaleObs, mexcVars, mexcObs, twitterVars, twitterObs,
                MEXC_KEYS, TWITTER_BEARER_TOKEN, diff_domain, procVars, baseVars,
                subscribed_chats, laterVars, laterObs, whales_changed, view>>

\* a caller asks for a credential
PoolGetUsable ==
    /\ pool_op' = [op |-> "GetUsable", got |-> GetUsable(pool_failed, currentIndex),
                   elapsed |-> pool_now - lastResetAt, failed0 |-> pool_failed]
    /\ UNCHANGED <<pool_failed, currentIndex, lastResetAt, pool_now>>
    /\ PoolFrame

\* MarkFailed(pool, credential)
PoolMarkFailed(i) ==
    /\ pool_failed' = [pool_failed EXCEPT ![i] = TRUE]
    /\ pool_op' = [op |-> "MarkFailed", got |-> i,
                   elapsed |-> pool_now - lastResetAt, failed0 |-> pool_failed]
    /\ UNCHANGED <<currentIndex, lastResetAt, pool_now>>
    /\ PoolFrame

\* Advance(pool)
PoolAdvance ==
    /\ currentIndex' = PoolAt(currentIndex, 1)
    /\ pool_op' = [op |-> "Advance", got |-> 0,
                   elapsed |-> pool_now - lastResetAt, failed0 |-> pool_failed]
    /\ UNCHANGED <<pool_failed, lastResetAt, pool_now>>
    /\ PoolFrame

\* MaybeReset(pool, now)
PoolMaybeReset ==
    /\ IF ResetDue(pool_now, lastResetAt)
       THEN /\ pool_failed' = [i \in 1..PoolSize |-> FALSE]
            /\ lastResetAt' = pool_now
       ELSE UNCHANGED <<pool_failed, lastResetAt>>
    /\ pool_op' = [op |-> "MaybeReset", got |-> 0,
                   elapsed |-> pool_now - lastResetAt, failed0 |-> pool_failed]
    /\ UNCHANGED <<currentIndex, pool_now>>
    /\ PoolFrame

\* time passes
PoolTick ==
    /\ pool_now + TickHours <= MaxNow
    /\ pool_now' = pool_now + TickHours
    /\ pool_op' = NoPoolOp
    /\ UNCHANGED <<pool_failed, currentIndex, lastResetAt>>
    /\ PoolFrame

InitPool ==
    /\ InitCommon
    /\ async_task = "none"
    /\ slot_task = "none"
    /\ ETHERSCAN_API_KEY = TRUE
    /\ MEXC_KEYS = TRUE
    /\ TWITTER_BEARER_TOKEN = TRUE
    /\ diff_domain = "none"

NextPool ==
    \/ PoolGetUsable
    \/ \E i \in 1..PoolSize : PoolMarkFailed(i)
    \/ PoolAdvance
    \/ PoolMaybeReset
    \/ PoolTick

SpecPool == InitPool /\ [][NextPool]_vars

PoolDistance(i) == (i - currentIndex + PoolSize) % PoolSize

\* C25: GetUsable returns the first credential at or after currentIndex,
\* wrapping round once, whose failed flag is false: the credential returned is
\* not failed and every credential nearer to currentIndex is; it returns absent
\* exactly when all credentials are failed.
C25_GetUsableSelection ==
    pool_op.op = "GetUsable" =>
        /\ pool_op.got = 0 <=> AllFailed(pool_failed)
        /\ pool_op.got # 0 =>
              /\ pool_op.got \in 1..PoolSize
              /\ ~pool_failed[pool_op.got]
              /\ \A j \in 1..PoolSize :
                    PoolDistance(j) < PoolDistance(pool_op.got) => pool_failed[j]

C25_Witness ==
    /\ pool_op.op = "GetUsable"
    /\ currentIndex = PoolSize
    /\ pool_failed[PoolSize]
    /\ pool_failed[1]
    /\ ~pool_failed[2]
    /\ pool_op.got = 2

(***************************************************************************)
(* Startup: the module is imported, then main sets up the jobs and the     *)
(* handlers, and the task of the behaviour ticks.                          *)
(***************************************************************************)
\* the import going on without the chat token
ConfigOK_Unchecked == TRUE

\* lines 63-64: if not TELEGRAM_TOKEN: raise ValueError
ConfigOK == TELEGRAM_TOKEN

\* lines 33-64 and main
Startup ==
    /\ process = "starting"
    /\ process' = IF ConfigOK THEN "running" ELSE "failed"
    /\ UNCHANGED <<TELEGRAM_TOKEN, MEXC_KEYS, TWITTER_BEARER_TOKEN, diff_domain, poolVars,
                   whales_changed, view, whaleVars, whaleObs, mexcVars, mexcObs, twitterVars, twitterObs,
                   baseVars, subscribed_chats, laterVars, laterObs>>

InitStartup ==
    /\ InitState
    /\ TELEGRAM_TOKEN \in BOOLEAN
    /\ process = "starting"
    /\ async_task \in {"whale", "mexc", "tether", "twitter"}
    /\ slot_task = "none"
    /\ ETHERSCAN_API_KEY \in BOOLEAN
    /\ MEXC_KEYS \in BOOLEAN
    /\ TWITTER_BEARER_TOKEN \in BOOLEAN
    /\ diff_domain = "none"

NextStartup ==
    \/ Startup
    \/ \E chat_id \in Chats : process = "running" /\ Start(chat_id)
    \/ process = "running" /\ Runs("whale") /\ AddWhale("0xa1")
    \/ process = "running" /\ Runs("twitter") /\ AddAccount("alice")
    \/ process = "running" /\ Runs("twitter") /\ Post("alice")
    \/ process = "running" /\ Runs("tether") /\ Mine(<<TxOrder[1]>>)
    \/ \E now \in Times : \E resp \in [Range(whales) -> SlotWhaleResponses] :
          process = "running" /\ Runs("whale") /\ AutoUpdate(now, resp)
              /\ UNCHANGED slotHist
    \/ \E now \in Times : \E resp \in SlotMexcResponses :
          process = "running" /\ Runs("mexc") /\ MexcAutoUpdate(now, resp)
              /\ UNCHANGED slotHist
    \/ \E head_status \in HeadStatuses : \E tx_status \in TxStatuses :
          process = "running" /\ Runs("tether") /\ TetherUpdate(head_status, tx_status)
    \/ \E status \in [Range(accounts) -> TwitterStatuses] :
          process = "running" /\ Runs("twitter") /\ TwitterUpdate(status)

SpecStartup == InitStartup /\ [][NextStartup]_vars

(***************************************************************************)
(* Claims about startup (SpecStartup)                                      *)
(***************************************************************************)
\* C26 (as claimed): when one of the credentials (chat token, exchange keys,
\* chain-explorer key, post-feed token) is missing, the process never is in
\* the running state.
C26_ConfigFatal ==
    (~TELEGRAM_TOKEN \/ ~MEXC_KEYS \/ ~ETHERSCAN_API_KEY \/ ~TWITTER_BEARER_TOKEN)
        => process # "running"

\* C26 (amended): without the chat token the process never is in the running
\* state; without the credential of a capability it runs, and the task of that
\* capability fetches nothing, sends nothing and leaves its state as it was.
C26_ConfigFatalAmended ==
    /\ ~TELEGRAM_TOKEN => process # "running"
    /\ ~MEXC_KEYS =>
          /\ m_fetch = NoFetch /\ m_sent = <<>> /\ ~m_report
          /\ last_mexc_positions = EmptyDict /\ last_mexc_push_time = NoLabel
          /\ trades_history = <<>>
    /\ ~ETHERSCAN_API_KEY =>
          /\ th_fetch = "none" /\ th_sent = <<>>
          /\ last_block_checked = 0 /\ saved_last_block = 0 /\ last_tx_hash = ""
    /\ ~TWITTER_BEARER_TOKEN =>
          /\ t_fetch = EmptyDict /\ t_sent = <<>>
          /\ last_tweets = EmptyDict

C26_Witness ==
    /\ process = "running"
    /\ ~MEXC_KEYS
    /\ subscribed_chats # {}
    /\ m_ran = "skipped"

LabelAfterCheck_Deferred(should_push, mark, last) == last

\* lines 2214-2219, 2326-2331: if should_push: last_..._push_time = current_time_mark
LabelAfterCheck(should_push, mark, last) == IF should_push THEN mark ELSE last

OverlapFrame ==
    UNCHANGED <<whales, last_positions, last_mexc_positions, trades_history, whaleObs,
                mexcObs, twitterVars, twitterObs, envVars, baseVars, subscribed_chats,
                tetherVars, tetherObs, clockVars, async_task, w_task, m_task, th_task,
                tw_task, missed>>

\* lines 2181-2224: invocation i of auto_update, from the tick to its first await
OverlapWhaleBegin(i) ==
    LET should_push == /\ InWhaleWindow(clock)
                       /\ last_scheduled_push_time # WhaleTimeMark(clock)
    IN
    /\ slot_task = "whale"
    /\ ~invocations[i]
    /\ whales # <<>> /\ subscribed_chats # {}
    /\ last_scheduled_push_time' =
          LabelAfterCheck(should_push, WhaleTimeMark(clock), last_scheduled_push_time)
    /\ invocations' = [invocations EXCEPT ![i] = TRUE]
    /\ active_now' = TRUE
    /\ fires' = IF should_push THEN fires + 1 ELSE fires
    /\ UNCHANGED <<last_mexc_push_time, reports, ok_ticked>>
    /\ OverlapFrame

\* lines 2285-2333: invocation i of mexc_auto_update, from the tick to its await
OverlapMexcBegin(i) ==
    LET should_push == /\ InMexcWindow(clock)
                       /\ last_mexc_push_time # MexcTimeMark(clock)
    IN
    /\ slot_task = "mexc"
    /\ ~invocations[i]
    /\ subscribed_chats # {} /\ MEXC_KEYS
    /\ last_mexc_push_time' =
          LabelAfterCheck(should_push, MexcTimeMark(clock), last_mexc_push_time)
    /\ invocations' = [invocations EXCEPT ![i] = TRUE]
    /\ active_now' = TRUE
    /\ fires' = IF should_push THEN fires + 1 ELSE fires
    /\ UNCHANGED <<last_scheduled_push_time, reports, ok_ticked>>
    /\ OverlapFrame

\* invocation i goes through its awaits and ends; it does not touch the label
OverlapEnd(i) ==
    /\ invocations[i]
    /\ invocations' = [invocations EXCEPT ![i] = FALSE]
    /\ UNCHANGED <<last_scheduled_push_time, last_mexc_push_time, fires, reports,
                   ok_ticked, active_now>>
    /\ OverlapFrame

InitOverlap ==
    /\ InitCommon
    /\ async_task = "none"
    /\ slot_task \in {"whale", "mexc"}
    /\ ETHERSCAN_API_KEY = TRUE
    /\ MEXC_KEYS = TRUE
    /\ TWITTER_BEARER_TOKEN = TRUE
    /\ diff_domain = "none"

NextOverlap ==
    \/ \E chat_id \in Chats : Start(chat_id)
    \/ slot_task = "whale" /\ AddWhale("0xa1")
    \/ \E i \in 1..MaxInvocations : OverlapWhaleBegin(i)
    \/ \E i \in 1..MaxInvocations : OverlapMexcBegin(i)
    \/ \E i \in 1..MaxInvocations : OverlapEnd(i)
    \/ ClockAdvance

SpecOverlap == InitOverlap /\ [][NextOverlap]_vars

(***************************************************************************)
(* Claims about overlapping invocations (SpecOverlap)                      *)
(***************************************************************************)
\* C28: however the invocations of one task overlap, at most one of them
\* decides to push for a slot.
C28_AtomicSlotCheckAndSet == fires <= 1

C28_Witness ==
    /\ fires = 1
    /\ \A i \in 1..MaxInvocations : invocations[i]
    /\ InWindow

(***************************************************************************)
(* No subscriber: the process was constructed from its files (registries,  *)
(* last post ids, mint cursor) while no chat is subscribed; the handlers   *)
(* and the four tasks run                                                  *)
(***************************************************************************)
\* lines 59-61, 75, 527-528, 770-771, 980-982: the state after construction;
\* the snapshots and the slot labels are not kept on file
InitAudience ==
    /\ PoolInit
    /\ whales \in {<<>>, <<"0xa1">>}
    /\ last_positions = EmptyDict
    /\ subscribed_chats = {}
    /\ last_scheduled_push_time = NoLabel
    /\ last_mexc_positions = EmptyDict
    /\ last_mexc_push_time = NoLabel
    /\ trades_history = <<>>
    /\ accounts \in {<<>>, <<"alice">>}
    /\ feed \in [Users -> 0..1]
    /\ last_tweets \in {EmptyDict} \cup
          {Put(EmptyDict, "alice", 1) : x \in {u \in Range(accounts) : feed[u] = 1}}
    /\ WhaleObsInit /\ MexcObsInit /\ TwitterObsInit /\ TetherObsInit
    /\ ledger \in {<<>>, <<(<<TxOrder[1]>>)>>}
    /\ last_block_checked \in 0..Len(ledger)
    /\ saved_last_block = last_block_checked
    /\ last_tx_hash = ""
    /\ notified = [h \in MintHashes |-> 0]
    /\ SlotInit
    /\ w_task = IdleTask /\ m_task = IdleTask /\ th_task = IdleTask /\ tw_task = IdleTask
    /\ invocations = [i \in 1..MaxInvocations |-> FALSE]
    /\ whales_changed = FALSE
    /\ view = NoView
    /\ m_baseline = "pending"
    /\ TELEGRAM_TOKEN = TRUE
    /\ process = "running"
    /\ async_task \in {"whale", "mexc", "tether", "twitter"}
    /\ slot_task = "none"
    /\ ETHERSCAN_API_KEY = TRUE
    /\ MEXC_KEYS = TRUE
    /\ TWITTER_BEARER_TOKEN = TRUE
    /\ diff_domain = "none"

NextAudience ==
    \/ \E chat_id \in Chats : Start(chat_id)
    \/ Runs("whale") /\ AddWhale("0xa1")
    \/ Runs("twitter") /\ AddAccount("alice")
    \/ Runs("twitter") /\ Post("alice")
    \/ Runs("tether") /\ Mine(<<TxOrder[2]>>)
    \/ \E now \in Times : \E resp \in [Range(whales) -> WhaleResponses] :
          Runs("whale") /\ AutoUpdate(now, resp) /\ UNCHANGED slotHist
    \/ \E now \in Times : \E resp \in MexcResponses :
          Runs("mexc") /\ MexcAutoUpdate(now, resp) /\ UNCHANGED slotHist
    \/ \E head_status \in HeadStatuses : \E tx_status \in TxStatuses :
          Runs("tether") /\ TetherUpdate(head_status, tx_status)
    \/ \E status \in [Range(accounts) -> TwitterStatuses] :
          Runs("twitter") /\ TwitterUpdate(status)

SpecAudience == InitAudience /\ [][NextAudience]_vars

(***************************************************************************)
(* Claims about ticks without a subscriber (SpecAudience)                  *)
(***************************************************************************)
\* what the tasks keep between ticks: the snapshots, the last post ids, the
\* mint cursor in memory and on file, the last mint hash and both slot labels
MonitoringState ==
    <<last_positions, last_mexc_positions, last_tweets, last_block_checked,
      saved_last_block, last_tx_hash, last_scheduled_push_time, last_mexc_push_time>>

\* C33: while the subscriber set is empty, a step (so every tick of the four
\* tasks) leaves the monitoring state unchanged and ends with no fetch and no
\* send of any task on record; likewise for the whale task while no whale is
\* tracked.
C33_EmptyAudienceNoOp ==
    [][/\ subscribed_chats = {} =>
             /\ UNCHANGED MonitoringState
             /\ w_fetch' = EmptyDict /\ w_sent' = <<>> /\ w_report' = {}
             /\ m_fetch' = NoFetch /\ m_sent' = <<>> /\ m_report' = FALSE
             /\ t_fetch' = EmptyDict /\ t_sent' = <<>>
             /\ th_fetch' = "none" /\ th_sent' = <<>>
       /\ whales = <<>> =>
             /\ UNCHANGED <<last_positions, last_scheduled_push_time>>
             /\ w_fetch' = EmptyDict /\ w_sent' = <<>> /\ w_report' = {}]_vars

\* no chat is subscribed and twitter_update has just ticked (t_prior) with a
\* tracked account that has a stored post id and a newer post upstream
C33_Witness ==
    /\ subscribed_chats = {}
    /\ accounts # <<>>
    /\ t_prior # EmptyDict
    /\ "alice" \in DOMAIN last_tweets
    /\ feed["alice"] > last_tweets["alice"]

(***************************************************************************)
(* The on-demand views: commands and buttons that fetch and show           *)
(* positions, posts or mints to the user who asked                         *)
(***************************************************************************)
\* a view answers its user and assigns nothing else
ViewFrame ==
    UNCHANGED <<whaleVars, whaleObs, mexcVars, mexcObs, twitterVars, twitterObs,
                MEXC_KEYS, TWITTER_BEARER_TOKEN, diff_domain, poolVars, procVars,
                whales_changed, baseVars, subscribed_chats, laterVars, laterObs>>

\* lines 1484-1494: the whales of the registry that have positions, in order
RECURSIVE ShownPositions(_, _)
ShownPositions(addresses, resp) ==
    IF addresses = <<>> THEN <<>>
    ELSE LET positions == WhaleFetch(resp[Head(addresses)])
         IN (IF positions = <<>> THEN <<>>
             ELSE <<[address |-> Head(addresses), positions |-> positions]>>)
                \o ShownPositions(Tail(addresses), resp)

\* lines 1476-1497: /allwhale
ShowAllPositions(resp) ==
    /\ view' = [cmd |-> "allwhale", shown |-> ShownPositions(whales, resp)]
    /\ ViewFrame

\* lines 1917-1936: the button check:<address>
ButtonCheck(address, resp) ==
    /\ view' = [cmd |-> "check", shown |-> WhaleFetch(resp)]
    /\ ViewFrame

\* lines 2007-2025: the button refresh:<address>
ButtonRefresh(address, resp) ==
    /\ view' = [cmd |-> "refresh", shown |-> WhaleFetch(resp)]
    /\ ViewFrame

\* lines 1525-1553: /mexc
MexcCommand(resp) ==
    /\ view' = [cmd |-> "mexc", shown |-> MexcFetch(MEXC_KEYS, resp)]
    /\ ViewFrame

\* lines 2033-2048: the button mexc_refresh
ButtonMexcRefresh(resp) ==
    /\ view' = [cmd |-> "mexc_refresh", shown |-> MexcFetch(MEXC_KEYS, resp)]
    /\ ViewFrame

\* lines 679-721: check_new_tweets returns the timeline, newest first, at most
\* max_results ids; it sends no since_id and stores nothing
CheckNewTweets(username, max_results, status) ==
    LET u == NormalizeUsername(username)
        n == IF feed[u] < max_results THEN feed[u] ELSE max_results
    IN IF ~TWITTER_BEARER_TOKEN \/ status # "ok" THEN <<>>
       ELSE [i \in 1..n |-> feed[u] - i + 1]

\* the button checkx_count calling check_new_tweets_auto
ButtonCheckxCount_Auto(username, count, status) ==
    LET r == CheckNewTweetsAuto(last_tweets, username, status) IN
    /\ view' = [cmd |-> "checkx_count", shown |-> r.tweets]
    /\ last_tweets' = r.last_tweets
    /\ UNCHANGED <<accounts, feed, whaleVars, whaleObs, mexcVars, mexcObs, twitterObs,
                   MEXC_KEYS, TWITTER_BEARER_TOKEN, diff_domain, poolVars, procVars,
                   whales_changed, baseVars, subscribed_chats, laterVars, laterObs>>

\* lines 2120-2136: the button checkx_count:<username>:<count>, reached from
\* /checkx (1710-1733) and the button checkx_user (2093-2118)
ButtonCheckxCount(username, count, status) ==
    /\ view' = [cmd |-> "checkx_count",
                shown |-> CheckNewTweets(username, count, status)]
    /\ ViewFrame

\* lines 1775-1805: /checktether shows the latest block and the cursor
CheckTether(head_status) ==
    /\ view' = [cmd |-> "checktether",
                shown |-> IF ~ETHERSCAN_API_KEY THEN <<>>
                          ELSE <<IF head_status = "ok" THEN Len(ledger) ELSE 0,
                                 last_block_checked>>]
    /\ ViewFrame

\* the transfers of the ledger, newest first (sort desc)
RECURSIVE Newest(_)
Newest(b) == IF b < 1 THEN <<>> ELSE ledger[b] \o Newest(b - 1)

\* the first n elements of a list
Take(list, n) == [i \in 1..(IF Len(list) < n THEN Len(list) ELSE n) |-> list[i]]

\* lines 889-932: get_recent_mints returns the newest mints, at most limit
GetRecentMints(limit, tx_status) ==
    IF ~ETHERSCAN_API_KEY \/ tx_status # "ok" THEN <<>>
    ELSE Take(SelectSeq(Newest(Len(ledger)), LAMBDA tx : tx.mint), limit)

\* lines 2148-2165: the button tether_history:<limit>, reached from
\* /tether_history (1807-1831)
ButtonTetherHistory(limit, tx_status) ==
    LET mints == GetRecentMints(limit, tx_status) IN
    /\ view' = [cmd |-> "tether_history",
                shown |-> [i \in DOMAIN mints |-> mints[i].hash]]
    /\ ViewFrame

\* the counts and limits the buttons offer (lines 2104-2105, 1811-1816)
Counts == {5, 10}

InitViews ==
    /\ InitCommon
    /\ async_task \in {"whale", "mexc", "tether", "twitter"}
    /\ slot_task = "none"
    /\ ETHERSCAN_API_KEY = TRUE
    /\ MEXC_KEYS = TRUE
    /\ TWITTER_BEARER_TOKEN = TRUE
    /\ diff_domain = "none"

NextViews ==
    \/ \E chat_id \in Chats : Start(chat_id)
    \/ Runs("whale") /\ AddWhale("0xa1")
    \/ \E now \in Times : \E resp \in [Range(whales) -> WhaleResponses] :
          Runs("whale") /\ AutoUpdate(now, resp) /\ UNCHANGED slotHist
    \/ \E resp \in [Range(whales) -> WhaleResponses] :
          Runs("whale") /\ ShowAllPositions(resp)
    \/ \E resp \in WhaleResponses : Runs("whale") /\ ButtonCheck("0xa1", resp)
    \/ \E resp \in WhaleResponses : Runs("whale") /\ ButtonRefresh("0xa1", resp)
    \/ \E now \in Times : \E resp \in MexcResponses :
          Runs("mexc") /\ MexcAutoUpdate(now, resp) /\ UNCHANGED slotHist
    \/ \E resp \in MexcResponses : Runs("mexc") /\ MexcCommand(resp)
    \/ \E resp \in MexcResponses : Runs("mexc") /\ ButtonMexcRefresh(resp)
    \/ Runs("twitter") /\ AddAccount("alice")
    \/ Runs("twitter") /\ Post("alice")
    \/ \E status \in [Range(accounts) -> TwitterStatuses] :
          Runs("twitter") /\ TwitterUpdate(status)
    \/ \E count \in Counts : \E status \in TwitterStatuses :
          Runs("twitter") /\ ButtonCheckxCount("alice", count, status)
    \/ \E txs \in BlockContents : Runs("tether") /\ Mine(txs)
    \/ \E head_status \in HeadStatuses : \E tx_status \in TxStatuses :
          Runs("tether") /\ TetherUpdate(head_status, tx_status)
    \/ \E head_status \in HeadStatuses : Runs("tether") /\ CheckTether(head_status)
    \/ \E limit \in Counts : \E tx_status \in TxStatuses :
          Runs("tether") /\ ButtonTetherHistory(limit, tx_status)

SpecViews == InitViews /\ [][NextViews]_vars

(***************************************************************************)
(* Claims about the views (SpecViews)                                      *)
(***************************************************************************)
\* C34: a step in which an on-demand command or button answers its user
\* (/allwhale, check, refresh, /mexc, mexc_refresh, checkx, /checktether,
\* tether_history) modifies no stored snapshot, last post id, mint cursor, last
\* mint hash or slot label.
C34_ViewsLeaveState == [][view' # view => UNCHANGED MonitoringState]_vars

\* checkx has shown its user a post that is newer than the last post id stored
\* for the account, which twitter_update has yet to announce
C34_Witness ==
    /\ view.cmd = "checkx_count"
    /\ view.shown # <<>>
    /\ "alice" \in DOMAIN last_tweets
    /\ Head(view.shown) > last_tweets["alice"]

(***************************************************************************)
(* Claims about the registry operations (SpecWhale)                        *)
(***************************************************************************)
\* C36: add_whale with an address that does not start with 0x or is not 42
\* characters long returns False and leaves the whale registry unchanged;
\* remove_whale of an address that is not tracked returns False and leaves the
\* registry and the snapshot store unchanged; an add_whale that returns True
\* has stored the address in lowercase, and a remove_whale that returns True
\* has deleted the registry entry and that address's snapshot.
C36_RegistryRejects ==
    [][\A address \in AddressInputs :
          /\ AddWhale(address) =>
                /\ (~StartsWith0x(address) \/ ~HasLen42(address)) =>
                      (~w_call'.ret /\ UNCHANGED whales)
                /\ w_call'.ret =>
                      /\ Lower(address) \in Range(whales')
                      /\ address # Lower(address) => address \notin Range(whales')
          /\ RemoveWhale(address) =>
                /\ Lower(address) \notin Range(whales) =>
                      (~w_call'.ret /\ UNCHANGED <<whales, last_positions>>)
                /\ w_call'.ret =>
                      /\ Lower(address) \notin Range(whales')
                      /\ Lower(address) \notin DOMAIN last_positions'
                      /\ Len(whales') = Len(whales) - 1]_vars

\* add_whale was given an address in capitals and returned True while the
\* tick had already stored a snapshot for another tracked whale
C36_Witness ==
    /\ w_call = [op |-> "add_whale", address |-> "0xA1", ret |-> TRUE]
    /\ "0xa2" \in DOMAIN last_positions

\* remove_whale was given a tracked address in capitals, returned True, and the
\* other whale's snapshot is still stored
C36_RemoveWitness ==
    /\ w_call = [op |-> "remove_whale", address |-> "0xA1", ret |-> TRUE]
    /\ "0xa2" \in DOMAIN last_positions

====
